---- MODULE Spec2Model ----
(***************************************************************************)
(* observ-metrics: the Filter engine (src/src/core/SmartFilter.ts) and the *)
(* ObservMetrics coordinator (src/src/index.ts).                           *)
(*                                                                         *)
(* Strings are TLA+ strings; the regular expressions of the filter are     *)
(* modelled by what they do on them (substring search, case folding, the   *)
(* "(\?|$)" suffix).  A JavaScript call that can throw yields an outcome   *)
(* record [threw, value].                                                  *)
(***************************************************************************)
EXTENDS Integers, Sequences, FiniteSets, TLC

VARIABLES
    env,            \* the ambient browser globals read by the filter
    filterConfig,   \* Filter.config (the object shared with ObservMetrics.config.filtering)
    call,           \* a direct call of a Filter method: its arguments and outcome
    userContext,    \* ObservMetrics.config.userContext ("" is an absent field)
    isInitialized,  \* ObservMetrics.isInitialized
    instrumentors,  \* ObservMetrics.instrumentors: a Map, entries in insertion order
    exporters,      \* ObservMetrics.exporters: the names of the registered exporters
    events,         \* ObservMetrics.events: the log of admitted events
    pendingInit,    \* initialize() calls suspended at "await initializeOpenTelemetry()"
    sdkSetups,      \* how many times provider.register() has run
    constructed,    \* how many DomainInstrumentor objects have been constructed
    held,           \* instrumentor references the host application holds
    admitted,       \* an instrumented call has emitted an admitted event since the
                    \* log was last emptied (by construction or destroy)
    last            \* the last call on the coordinator, how it ended, and the
                    \* exporter methods it invoked

coordVars ==
    <<userContext, isInitialized, instrumentors, exporters, events,
      pendingInit, sdkSetups, constructed, held, admitted, last>>

vars == <<env, filterConfig, call, coordVars>>

(***************************************************************************)
(* Bounds                                                                  *)
(***************************************************************************)
RateScale == 2      \* samplingRate is r/RateScale, a draw is d/(2*RateScale)
MaxFilters == 2     \* longest customFilters list
MaxEvents == 2      \* longest event log
MaxPending == 2     \* most initialize() calls in flight at once
MaxSdkSetups == 2   \* most provider registrations in one behaviour
MaxConstructed == 4 \* most DomainInstrumentor constructions in one behaviour
MaxHeld == 1        \* most instrumentor references held by the host
MaxClock == 1       \* Date.now() is in 0..MaxClock
MaxAdded == 1       \* most predicates added through addFilter()
MaxLag == 1         \* a timer fires up to MaxLag ms after its delay has elapsed

(***************************************************************************)
(* Strings and RegExp.test                                                 *)
(***************************************************************************)
UpperToLower ==
    "A" :> "a" @@ "B" :> "b" @@ "C" :> "c" @@ "D" :> "d" @@ "E" :> "e" @@
    "F" :> "f" @@ "G" :> "g" @@ "H" :> "h" @@ "I" :> "i" @@ "J" :> "j" @@
    "K" :> "k" @@ "L" :> "l" @@ "M" :> "m" @@ "N" :> "n" @@ "O" :> "o" @@
    "P" :> "p" @@ "Q" :> "q" @@ "R" :> "r" @@ "S" :> "s" @@ "T" :> "t" @@
    "U" :> "u" @@ "V" :> "v" @@ "W" :> "w" @@ "X" :> "x" @@ "Y" :> "y" @@
    "Z" :> "z"

LowerChar(c) == IF c \in DOMAIN UpperToLower THEN UpperToLower[c] ELSE c

RECURSIVE ToLower(_)
ToLower(s) ==
    IF Len(s) = 0 THEN ""
    ELSE LowerChar(SubSeq(s, 1, 1)) \o ToLower(SubSeq(s, 2, Len(s)))

\* /lit/.test(s): lit occurs somewhere in s
Includes(s, lit) ==
    \E i \in 1..(Len(s) - Len(lit) + 1) : SubSeq(s, i, i + Len(lit) - 1) = lit

\* /lit/i.test(s), lit in lower case
IncludesIgnoreCase(s, lit) == Includes(ToLower(s), lit)

\* /lit(\?|$)/.test(s): lit occurs in s, followed by "?" or by the end of s
IncludesBeforeQueryOrEnd(s, lit) ==
    \E i \in 1..(Len(s) - Len(lit) + 1) :
        /\ SubSeq(s, i, i + Len(lit) - 1) = lit
        /\ \/ i + Len(lit) - 1 = Len(s)
           \/ SubSeq(s, i + Len(lit), i + Len(lit)) = "?"

botPatterns ==
    { "bot", "crawler", "spider", "scraper", "phantom", "headless", "selenium",
      "puppeteer", "playwright", "googlebot", "bingbot", "slurp",
      "facebookexternalhit", "twitterbot", "linkedinbot", "whatsapp", "telegrambot" }

extensionPatterns ==
    { "chrome-extension:", "moz-extension:", "safari-extension:", "extension/",
      "addon", "greasemonkey", "tampermonkey", "adblock", "ublock", "ghostery",
      "privacy", "disconnect" }

noiseSuffixPatterns ==
    { ".css", ".js", ".png", ".jpg", ".gif", ".svg", ".woff", ".ttf", ".ico" }

noiseSubstringPatterns ==
    { "favicon", "manifest.json", "robots.txt", "sw.js", "service-worker", "workbox" }

(***************************************************************************)
(* Outcomes of a call                                                      *)
(***************************************************************************)
Ret(v) == [threw |-> FALSE, value |-> v]
Throw == [threw |-> TRUE, value |-> FALSE]

(***************************************************************************)
(* The environment: which globals exist and what they hold                 *)
(***************************************************************************)
OrdinaryUserAgent == "Mozilla/5.0 (Windows NT 10.0; Win64; x64) AppleWebKit/537.36"

\* an ordinary desktop browser: every global present, no bot signal
OrdinaryBrowser ==
    [ window |-> TRUE, navigator |-> TRUE, screen |-> TRUE,
      location |-> TRUE, document |-> TRUE,
      userAgent |-> OrdinaryUserAgent, webdriver |-> FALSE,
      chrome |-> "absent", phantom |-> FALSE,
      outerWidth |-> 1280, outerHeight |-> 800,
      cdc |-> FALSE, asyncScriptInfo |-> FALSE, permissionsQuery |-> "native",
      screenWidth |-> 1920, screenHeight |-> 1080,
      hostname |-> "localhost",
      ontouchstart |-> FALSE, innerWidth |-> 1280, innerHeight |-> 720,
      timezoneOffset |-> 0 ]

\* the ordinary browser with some globals taken away (window.location and
\* window.document cannot exist without window)
ProbeEnvironments ==
    { [OrdinaryBrowser EXCEPT !.window = w, !.navigator = n, !.screen = sc,
                              !.location = w /\ l, !.document = w /\ d] :
        w \in BOOLEAN, n \in BOOLEAN, sc \in BOOLEAN, l \in BOOLEAN, d \in BOOLEAN }

\* the ordinary browser with one thing changed
SignalEnvironments ==
    { [OrdinaryBrowser EXCEPT !.userAgent = "Googlebot/2.1"],
      [OrdinaryBrowser EXCEPT !.userAgent =
          "Mozilla/5.0 (X11; Linux x86_64) HeadlessChrome/120.0 Safari/537.36"],
      [OrdinaryBrowser EXCEPT !.userAgent = ""],
      [OrdinaryBrowser EXCEPT !.webdriver = TRUE],
      [OrdinaryBrowser EXCEPT !.chrome = "noRuntime"],
      [OrdinaryBrowser EXCEPT !.chrome = "runtime"],
      [OrdinaryBrowser EXCEPT !.phantom = TRUE],
      [OrdinaryBrowser EXCEPT !.outerHeight = 0],
      [OrdinaryBrowser EXCEPT !.cdc = TRUE],
      [OrdinaryBrowser EXCEPT !.asyncScriptInfo = TRUE],
      [OrdinaryBrowser EXCEPT !.permissionsQuery = "NotSupportedError"],
      [OrdinaryBrowser EXCEPT !.screenWidth = 0, !.screenHeight = 0],
      [OrdinaryBrowser EXCEPT !.screenHeight = 0],
      [OrdinaryBrowser EXCEPT !.hostname = "evil.example"],
      [OrdinaryBrowser EXCEPT !.ontouchstart = TRUE],
      [OrdinaryBrowser EXCEPT !.innerWidth = 0, !.innerHeight = 0,
                              !.timezoneOffset = 900] }

Environments == ProbeEnvironments \cup SignalEnvironments

(***************************************************************************)
(* Events, user contexts, custom predicates, filter configurations         *)
(***************************************************************************)
PlainUrl == "http://localhost:3000/test"
StylesheetUrl == "http://localhost:3000/assets/style.css"

\* values of attributes['http.url'] and attributes['url']; "" is an absent key
UrlValues ==
    { "", PlainUrl, StylesheetUrl,
      "http://localhost:3000/script.js?v=2",
      "http://localhost:3000/favicon.ico",
      "http://localhost:3000/report.jsp",
      "moz-extension://def456/popup.html" }

ExtensionStack == "Error: x at safari-extension://ghi789/inject.js:1:1"

\* severity "none" is an event without a severity
Severities == { "none", "info", "warn", "error", "critical" }

\* the attribute combinations drawn as inputs
AttributeSets ==
    { [httpUrl |-> h, url |-> "", stack |-> ""] : h \in UrlValues }
    \cup { [httpUrl |-> "", url |-> StylesheetUrl, stack |-> ""],
           [httpUrl |-> PlainUrl, url |-> StylesheetUrl, stack |-> ""],
           [httpUrl |-> PlainUrl, url |-> "", stack |-> ExtensionStack] }

Events ==
    { [severity |-> sv, httpUrl |-> a.httpUrl, url |-> a.url, stack |-> a.stack] :
        sv \in Severities, a \in AttributeSets }

NoEvent == [severity |-> "none", httpUrl |-> "", url |-> "", stack |-> ""]

TestContext ==
    [sessionId |-> "test-session", userSegment |-> "premium",
     isAuthenticated |-> TRUE, deviceType |-> "desktop"]

\* host-supplied predicates (event, context) -> boolean
Predicates == { "rejectAll", "dropInfo" }

ApplyPredicate(p, event, context) ==
    CASE p = "rejectAll" -> FALSE
      [] p = "dropInfo" -> event.severity # "info"

\* a predicate that throws when it is called
ThrowingPredicates == { "throwsError" }

Absent == [present |-> FALSE, list |-> <<>>]
Present(l) == [present |-> TRUE, list |-> l]

Whitelists ==
    { Absent, Present(<<>>), Present(<<"localhost">>), Present(<<"example.com">>) }

\* a draw of Math.random(), in units of 1/(2*RateScale): 0 <= draw < 1
Draws == 0..(2 * RateScale - 1)

RECURSIVE SeqsUpTo(_, _)
SeqsUpTo(S, n) ==
    IF n = 0 THEN { <<>> }
    ELSE LET shorter == SeqsUpTo(S, n - 1)
         IN shorter \cup { Append(q, x) : q \in shorter, x \in S }

FilterConfigs ==
    [ enableBotDetection : BOOLEAN,
      domainWhitelist : Whitelists,
      samplingRate : 0..RateScale,
      excludeExtensions : BOOLEAN,
      customFilters : {Absent} \cup { Present(l) : l \in SeqsUpTo(Predicates, MaxFilters) } ]

(***************************************************************************)
(* Filter (SmartFilter.ts)                                                 *)
(***************************************************************************)
\* x || y || '' on strings: the first non-empty one
FirstTruthy(x, y) == IF x # "" THEN x ELSE y

\* botPatterns.some(pattern => pattern.test(userAgent))
HasBotPattern(userAgent) ==
    \E pattern \in botPatterns : IncludesIgnoreCase(userAgent, pattern)

\* HasBotPattern, /Mobi|Android/i, the noise and the extension patterns on the
\* strings of the model, computed once
UserAgents == { e.userAgent : e \in Environments }
\* the endpoints instrumentApiCall is called with
Endpoints == {"/api/checkout"}

\* throw new Error(`API call failed: ${endpoint}`)
ExecuteApiCallError(endpoint) ==
    [name |-> "Error", message |-> "API call failed: " \o endpoint]

\* what a failing sink throws
SinkError == [name |-> "Error", message |-> "sink failed"]

\* error.stack begins with the error's name and message
ErrorStack(error) == error.name \o ": " \o error.message

\* the errors handed to trackError
PaymentError ==
    [name |-> "Error", message |-> "Payment processing failed",
     stack |-> "Error: Payment processing failed at processPayment"]
ExtensionError == [name |-> "TypeError", message |-> "x", stack |-> ExtensionStack]
TrackedErrors == { PaymentError, ExtensionError }

AttributeStrings ==
    UrlValues \cup { e.stack : e \in TrackedErrors } \cup Endpoints
    \cup { ErrorStack(ExecuteApiCallError(e)) : e \in Endpoints }
    \cup { ErrorStack(SinkError) }
botPatternHits == [ua \in UserAgents |-> HasBotPattern(ua)]

HasHeadlessIndicators(e) ==
    IF ~e.window THEN Ret(FALSE)
    ELSE IF e.chrome = "noRuntime" THEN Ret(TRUE)
    ELSE IF e.phantom THEN Ret(TRUE)
    ELSE IF e.outerHeight = 0 \/ e.outerWidth = 0 THEN Ret(TRUE)
    ELSE IF ~e.navigator THEN Throw
    ELSE IF e.webdriver THEN Ret(TRUE)
    ELSE Ret(FALSE)

HasAutomationIndicators(e) ==
    IF ~e.window THEN Ret(FALSE)
    ELSE IF ~e.document THEN Throw
    ELSE IF e.cdc THEN Ret(TRUE)
    ELSE IF e.asyncScriptInfo THEN Ret(TRUE)
    ELSE IF ~e.navigator THEN Throw
    ELSE IF e.permissionsQuery = "NotSupportedError" THEN Ret(TRUE)
    ELSE Ret(FALSE)

HasUnusualSessionCharacteristics(context, e) ==
    IF ~e.screen THEN Throw
    ELSE IF e.screenWidth = 0 \/ e.screenHeight = 0 THEN Ret(TRUE)
    ELSE Ret(FALSE)

IsBotSession(context, e) ==
    IF ~e.navigator THEN Throw
    ELSE IF botPatternHits[e.userAgent] THEN Ret(TRUE)
    ELSE LET headless == HasHeadlessIndicators(e) IN
    IF headless.threw \/ headless.value THEN headless
    ELSE LET automation == HasAutomationIndicators(e) IN
    IF automation.threw \/ automation.value THEN automation
    ELSE LET unusual == HasUnusualSessionCharacteristics(context, e) IN
    IF unusual.threw \/ unusual.value THEN unusual
    ELSE Ret(FALSE)

IsDomainAllowed(cfg, event, e) ==
    IF ~cfg.domainWhitelist.present \/ Len(cfg.domainWhitelist.list) = 0 THEN Ret(TRUE)
    ELSE IF ~e.window \/ ~e.location THEN Throw
    ELSE Ret(\E i \in 1..Len(cfg.domainWhitelist.list) :
                 cfg.domainWhitelist.list[i] = e.hostname)

MatchesNoisePattern(url) ==
    \/ \E pattern \in noiseSuffixPatterns : IncludesBeforeQueryOrEnd(url, pattern)
    \/ \E pattern \in noiseSubstringPatterns : Includes(url, pattern)

noisePatternHits == [url \in AttributeStrings |-> MatchesNoisePattern(url)]

IsNoiseEvent(event) ==
    LET url == FirstTruthy(event.httpUrl, event.url)
    IN noisePatternHits[url]

MatchesExtensionPattern(url, stack) ==
    \E pattern \in extensionPatterns :
        IncludesIgnoreCase(url, pattern) \/ IncludesIgnoreCase(stack, pattern)

extensionPatternHits ==
    [url \in AttributeStrings |->
        [stack \in AttributeStrings |-> MatchesExtensionPattern(url, stack)]]

IsExtensionEvent(event) ==
    LET url == FirstTruthy(event.httpUrl, event.url)
        stack == event.stack
    IN extensionPatternHits[url][stack]

\* a loop that goes on after a predicate returned false
RECURSIVE RunEveryCustomFilter(_, _, _, _, _)
RunEveryCustomFilter(filters, i, event, context, invoked) ==
    IF i > Len(filters) THEN [passed |-> TRUE, threw |-> FALSE, invoked |-> invoked]
    ELSE LET rest == RunEveryCustomFilter(filters, i + 1, event, context, Append(invoked, i))
         IN [passed |-> ApplyPredicate(filters[i], event, context) /\ rest.passed,
             threw |-> FALSE, invoked |-> rest.invoked]

\* the loop over config.customFilters from position i on: which predicates were
\* invoked, and whether all of them returned true
RECURSIVE RunCustomFilters(_, _, _, _, _)
RunCustomFilters(filters, i, event, context, invoked) ==
    IF i > Len(filters) THEN [passed |-> TRUE, threw |-> FALSE, invoked |-> invoked]
    ELSE IF filters[i] \in ThrowingPredicates
         THEN [passed |-> FALSE, threw |-> TRUE, invoked |-> Append(invoked, i)]
    ELSE IF ~ApplyPredicate(filters[i], event, context)
         THEN [passed |-> FALSE, threw |-> FALSE, invoked |-> Append(invoked, i)]
         ELSE RunCustomFilters(filters, i + 1, event, context, Append(invoked, i))

\* Math.random() > samplingRate, in units of 1/(2*RateScale)
SampledOut(cfg, draw) == draw > 2 * cfg.samplingRate

Decided(v) == [threw |-> FALSE, value |-> v, invoked |-> <<>>, drew |-> FALSE]
Thrown == [threw |-> TRUE, value |-> FALSE, invoked |-> <<>>, drew |-> FALSE]

\* a first rule that lets only severity 'error' through
IsErrorOnly(event) == event.severity = "error"

\* event.severity === 'error' || event.severity === 'critical'
IsAlwaysProcessed(event) == event.severity = "error" \/ event.severity = "critical"

ShouldProcess(cfg, event, context, e, draw) ==
    IF IsAlwaysProcessed(event) THEN Decided(TRUE)
    ELSE LET bot == IF cfg.enableBotDetection THEN IsBotSession(context, e) ELSE Ret(FALSE) IN
    IF bot.threw THEN Thrown
    ELSE IF bot.value THEN Decided(FALSE)
    ELSE LET allowed == IsDomainAllowed(cfg, event, e) IN
    IF allowed.threw THEN Thrown
    ELSE IF ~allowed.value THEN Decided(FALSE)
    ELSE IF IsNoiseEvent(event) THEN Decided(FALSE)
    ELSE IF cfg.excludeExtensions /\ IsExtensionEvent(event) THEN Decided(FALSE)
    ELSE LET custom == IF cfg.customFilters.present
                       THEN RunCustomFilters(cfg.customFilters.list, 1, event, context, <<>>)
                       ELSE [passed |-> TRUE, threw |-> FALSE, invoked |-> <<>>] IN
    IF custom.threw
    THEN [threw |-> TRUE, value |-> FALSE, invoked |-> custom.invoked, drew |-> FALSE]
    ELSE IF ~custom.passed
    THEN [threw |-> FALSE, value |-> FALSE, invoked |-> custom.invoked, drew |-> FALSE]
    ELSE [threw |-> FALSE, value |-> ~SampledOut(cfg, draw),
          invoked |-> custom.invoked, drew |-> TRUE]

HasRealUserIndicators(e) ==
    IF e.ontouchstart THEN TRUE
    ELSE IF e.innerWidth > 0 /\ e.innerHeight > 0 THEN TRUE
    ELSE IF e.timezoneOffset >= -720 /\ e.timezoneOffset <= 720 THEN TRUE
    ELSE TRUE

\* /Mobi|Android/i.test(userAgent)
IsMobileUserAgent(userAgent) ==
    IncludesIgnoreCase(userAgent, "mobi") \/ IncludesIgnoreCase(userAgent, "android")

mobilePatternHits == [ua \in UserAgents |-> IsMobileUserAgent(ua)]

\* createDefaultContext reads navigator.userAgent
CreateDefaultContext(e) ==
    IF ~e.navigator THEN Throw
    ELSE Ret([sessionId |-> "session_now", userSegment |-> "anonymous",
              isAuthenticated |-> FALSE,
              deviceType |-> IF mobilePatternHits[e.userAgent]
                             THEN "mobile" ELSE "desktop"])

\* hasContext: whether the optional context argument was passed
IsRealUserSession(hasContext, e) ==
    IF ~e.window THEN Ret(FALSE)
    ELSE LET context == IF hasContext THEN Ret(TestContext) ELSE CreateDefaultContext(e) IN
    IF context.threw THEN Throw
    ELSE LET bot == IsBotSession(context.value, e) IN
    IF bot.threw THEN Throw
    ELSE IF bot.value THEN Ret(FALSE)
    ELSE Ret(HasRealUserIndicators(e))

\* one variant: the new predicate goes to the front of the list
PrependCustomFilter(cfg, predicate) ==
    [cfg EXCEPT !.customFilters =
        Present(<<predicate>> \o (IF cfg.customFilters.present
                                  THEN cfg.customFilters.list ELSE <<>>))]

\* addCustomFilter(filter): customFilters is created when absent, then push
AddCustomFilter(cfg, predicate) ==
    [cfg EXCEPT !.customFilters =
        Present(Append(IF cfg.customFilters.present THEN cfg.customFilters.list ELSE <<>>,
                       predicate))]

\* { ...config, ...newConfig } for a newConfig holding one field
UpdateConfig(cfg, field, v) ==
    CASE field = "samplingRate" -> [cfg EXCEPT !.samplingRate = v]
      [] field = "enableBotDetection" -> [cfg EXCEPT !.enableBotDetection = v]
      [] field = "excludeExtensions" -> [cfg EXCEPT !.excludeExtensions = v]


(***************************************************************************)
(* ObservMetrics (index.ts)                                                *)
(***************************************************************************)
\* config.domains, by name
DomainNames == <<"authentication", "ecommerce">>

\* A Partial<UserContext>: "" (for isAuthenticated, "absent") is a field not given.
\* config.userContext as given to the constructor:
InitialUserContexts ==
    { [sessionId |-> "test-session", userSegment |-> "premium",
       isAuthenticated |-> "true", deviceType |-> "desktop"],
      [sessionId |-> "", userSegment |-> "", isAuthenticated |-> "absent",
       deviceType |-> ""] }

\* the argument of updateUserContext
PartialContexts ==
    { [sessionId |-> "", userSegment |-> "enterprise", isAuthenticated |-> "true",
       deviceType |-> ""] }

\* { ...a, ...b }: the fields b holds override those of a
Spread(a, b) ==
    [sessionId |-> IF b.sessionId # "" THEN b.sessionId ELSE a.sessionId,
     userSegment |-> IF b.userSegment # "" THEN b.userSegment ELSE a.userSegment,
     isAuthenticated |-> IF b.isAuthenticated # "absent" THEN b.isAuthenticated
                         ELSE a.isAuthenticated,
     deviceType |-> IF b.deviceType # "" THEN b.deviceType ELSE a.deviceType]

\* a UserContext with every required field, from a spread over the defaults
AsUserContext(c) ==
    [sessionId |-> c.sessionId, userSegment |-> c.userSegment,
     isAuthenticated |-> c.isAuthenticated = "true", deviceType |-> c.deviceType]

Times == 0..MaxClock

\* getCurrentUserContext(), t being Date.now()
GetCurrentUserContext(e, uc, t) ==
    IF ~e.navigator THEN Throw
    ELSE Ret(AsUserContext(
                 Spread([sessionId |-> "session_" \o ToString(t),
                         userSegment |-> "anonymous",
                         isAuthenticated |-> "false",
                         deviceType |-> IF mobilePatternHits[e.userAgent]
                                        THEN "mobile" ELSE "desktop"],
                        uc)))

\* Map.keys() and Map.set(): a key already there keeps its position
Keys(m) == [i \in 1..Len(m) |-> m[i].name]

MapSet(m, inst) ==
    IF \E i \in 1..Len(m) : m[i].name = inst.name
    THEN [i \in 1..Len(m) |-> IF m[i].name = inst.name THEN inst ELSE m[i]]
    ELSE Append(m, inst)

MapHas(m, name) == \E i \in 1..Len(m) : m[i].name = name
MapGet(m, name) == m[CHOOSE i \in 1..Len(m) : m[i].name = name]

\* new DomainInstrumentor(domain, context, sink): id tells the objects apart
\* onEvent tells whether a sink was given
NewInstrumentor(name, id, context) ==
    [name |-> name, id |-> id, context |-> context, onEvent |-> TRUE]

\* a loop that stops after the first configured domain
InitializeFirstDomainOnly(m, k, context, firstId) ==
    IF k = 0 THEN m ELSE MapSet(m, NewInstrumentor(DomainNames[1], firstId, context))

\* initializeDomainInstrumentors(): config.domains.forEach(...), of which the
\* first k constructions succeed
RECURSIVE InitializeDomainInstrumentors(_, _, _, _)
InitializeDomainInstrumentors(m, k, context, firstId) ==
    IF k = 0 THEN m
    ELSE MapSet(InitializeDomainInstrumentors(m, k - 1, context, firstId),
                NewInstrumentor(DomainNames[k], firstId + k - 1, context))

\* one variant: the instrumentors are left as they are
KeepInstrumentors(m, k, context, firstId) == m

\* updateUserContext's instrumentors.forEach(...): every entry whose domain is
\* configured is replaced by a new instrumentor
RECURSIVE RebuildInstrumentors(_, _, _, _)
RebuildInstrumentors(m, k, context, firstId) ==
    IF k = 0 THEN m
    ELSE MapSet(RebuildInstrumentors(m, k - 1, context, firstId),
                NewInstrumentor(m[k].name, firstId + k - 1, context))

\* setupExporters(): one exporter, chosen by config.platform.platform
Platforms == { "console", "datadog" }
SetupExporters(platform) == << platform >>

\* one variant: the impact rules in another order
GetMetricBusinessImpactLastRuleFirst(metricName) ==
    IF Includes(metricName, "latency") \/ Includes(metricName, "performance")
    THEN "performance"
    ELSE IF Includes(metricName, "login") \/ Includes(metricName, "engagement")
    THEN "engagement"
    ELSE IF Includes(metricName, "revenue") \/ Includes(metricName, "purchase")
    THEN "revenue"
    ELSE "reliability"

\* getMetricBusinessImpact(metricName)
GetMetricBusinessImpact(metricName) ==
    IF Includes(metricName, "revenue") \/ Includes(metricName, "purchase")
    THEN "revenue"
    ELSE IF Includes(metricName, "login") \/ Includes(metricName, "engagement")
    THEN "engagement"
    ELSE IF Includes(metricName, "latency") \/ Includes(metricName, "performance")
    THEN "performance"
    ELSE "reliability"

\* one variant: a tracked error is reported as a warning
TrackErrorAsWarning(inst, error) ==
    [severity |-> "warn", httpUrl |-> "", url |-> "", stack |-> error.stack,
     eventType |-> "error", domain |-> inst.name,
     name |-> inst.name \o ".error", businessImpact |-> "reliability"]

\* the event trackError(error) builds
TrackError(inst, error) ==
    [severity |-> "error", httpUrl |-> "", url |-> "", stack |-> error.stack,
     eventType |-> "error", domain |-> inst.name,
     name |-> inst.name \o ".error", businessImpact |-> "reliability"]

\* the event recordBusinessMetric(metricName, value) builds
RecordBusinessMetric(inst, metricName, value) ==
    [severity |-> "info", httpUrl |-> "", url |-> "", stack |-> "",
     eventType |-> "metric", domain |-> inst.name,
     name |-> inst.name \o ".business." \o metricName,
     businessImpact |-> GetMetricBusinessImpact(metricName),
     metricName |-> metricName, metricValue |-> value,
     userSegment |-> inst.context.userSegment]

\* the events an instrumentor hands to its sink
TrackErrorEvent(inst) == TrackError(inst, ExtensionError)

RecordBusinessMetricEvent(inst) == RecordBusinessMetric(inst, "cart_value", 1)

\* getStats(), t being Date.now()
GetStats(t) ==
    LET context == GetCurrentUserContext(env, userContext, t) IN
    IF context.threw THEN Throw
    ELSE Ret([initialized |-> isInitialized,
              domains |-> Keys(instrumentors),
              eventsProcessed |-> Len(events),
              filterStats |-> [samplingRate |-> filterConfig.samplingRate,
                               enableBotDetection |-> filterConfig.enableBotDetection,
                               domainWhitelist |-> filterConfig.domainWhitelist,
                               excludeExtensions |-> filterConfig.excludeExtensions],
              userContext |-> context.value,
              exporters |-> exporters])

\* exporter.destroy is a function: the batching exporters have one, the
\* console exporter literal has none
HasDestroyHook(exporter) == exporter \in {"datadog", "newrelic"}

\* one variant: no exporter's hook is called
NoDestroyHooks(exps) == <<>>

\* destroy()'s exporters.forEach: the hooks it calls, in order
DestroyHooks(exps) == SelectSeq(exps, HasDestroyHook)

\* a finished call: hooks are the exporters whose destroy() it invoked,
\* exports the exporters whose export([event]) it invoked, arg its argument
\* (where one is recorded), failed the exporters whose export threw or
\* rejected, evaluated the number of shouldProcess calls it made
Call(op, outcome, hooks, exports) ==
    [op |-> op, outcome |-> outcome, hooks |-> hooks, exports |-> exports,
     arg |-> NoEvent, failed |-> {}, evaluated |-> 0]

\* a finished call with its argument
CallWith(op, outcome, arg) ==
    [op |-> op, outcome |-> outcome, hooks |-> <<>>, exports |-> <<>>,
     arg |-> arg, failed |-> {}, evaluated |-> 0]

\* a finished call of the sink with the event handed to it
Emitted(outcome, event, exports, failed) ==
    [op |-> "emit", outcome |-> outcome, hooks |-> <<>>, exports |-> exports,
     arg |-> event, failed |-> failed, evaluated |-> 1]

\* a call of the sink that threw before it reached shouldProcess
EmitFailed(event) == [Emitted("threw", event, <<>>, {}) EXCEPT !.evaluated = 0]

\* one variant: the exporters are skipped
ExportToNone(exps) == <<>>

\* this.exporters.forEach(async exporter => exporter.export([event])): the
\* exporters whose export is invoked, in order
ExportToAll(exps) == exps

\* one variant: a failed export reaches the caller of the sink
ExportFailureThrown(failed) == IF failed = {} THEN "admitted" ELSE "threw"

\* try { await exporter.export([event]) } catch (error) { console.error(...) }
\* inside each exporter's own async callback: how the sink ends
ExportFailureCaught(failed) == "admitted"

\* the elements of a sequence
Range(seq) == {seq[i] : i \in 1..Len(seq)}

\* the state new ObservMetrics(config) leaves
Constructed ==
    /\ userContext \in InitialUserContexts
    /\ isInitialized = FALSE
    /\ instrumentors = <<>>
    /\ \E platform \in Platforms : exporters = SetupExporters(platform)
    /\ events = <<>>
    /\ pendingInit = 0
    /\ sdkSetups = 0
    /\ constructed = 0
    /\ held = {}
    /\ admitted = FALSE
    /\ last = Call("construct", "returned", <<>>, <<>>)

(***************************************************************************)
(* Direct calls of the filter                                              *)
(***************************************************************************)
Idle ==
    [op |-> "idle", event |-> NoEvent, draw |-> 0, hasContext |-> FALSE,
     res |-> Decided(FALSE)]

\* filter.shouldProcess(event, context); Math.random() is consulted only when
\* the sampling rule is reached
ShouldProcessCall ==
    /\ call.op = "idle"
    /\ \E event \in Events :
        LET first == ShouldProcess(filterConfig, event, TestContext, env, 0) IN
        IF first.drew
        THEN \E draw \in Draws :
                call' = [op |-> "shouldProcess", event |-> event, draw |-> draw,
                         hasContext |-> TRUE,
                         res |-> ShouldProcess(filterConfig, event, TestContext, env, draw)]
        ELSE call' = [op |-> "shouldProcess", event |-> event, draw |-> 0,
                      hasContext |-> TRUE, res |-> first]
    /\ UNCHANGED <<env, filterConfig, coordVars>>

\* filter.isRealUserSession(context?)
IsRealUserSessionCall ==
    /\ call.op = "idle"
    /\ \E hasContext \in BOOLEAN :
        LET r == IsRealUserSession(hasContext, env) IN
        call' = [op |-> "isRealUserSession", event |-> NoEvent, draw |-> 0,
                 hasContext |-> hasContext,
                 res |-> [threw |-> r.threw, value |-> r.value,
                          invoked |-> <<>>, drew |-> FALSE]]
    /\ UNCHANGED <<env, filterConfig, coordVars>>

\* the caller has seen the outcome
ReturnFromCall ==
    /\ call.op # "idle"
    /\ call' = Idle
    /\ UNCHANGED <<env, filterConfig, coordVars>>

\* filter.addCustomFilter(predicate)
AddCustomFilterCall ==
    /\ call.op = "idle"
    /\ Len(filterConfig.customFilters.list) < MaxFilters
    /\ \E predicate \in Predicates :
        filterConfig' = AddCustomFilter(filterConfig, predicate)
    /\ UNCHANGED <<env, call, coordVars>>

\* filter.updateConfig({ field: v })
UpdateConfigCall ==
    /\ call.op = "idle"
    /\ \/ \E v \in 0..RateScale : filterConfig' = UpdateConfig(filterConfig, "samplingRate", v)
       \/ \E v \in BOOLEAN : filterConfig' = UpdateConfig(filterConfig, "enableBotDetection", v)
       \/ \E v \in BOOLEAN : filterConfig' = UpdateConfig(filterConfig, "excludeExtensions", v)
    /\ UNCHANGED <<env, call, coordVars>>

FilterInit ==
    /\ env \in Environments
    /\ filterConfig \in FilterConfigs
    /\ call = Idle
    /\ Constructed
    /\ userContext.sessionId = "test-session"
    /\ exporters = SetupExporters("console")

FilterNext ==
    \/ ShouldProcessCall
    \/ IsRealUserSessionCall
    \/ ReturnFromCall
    \/ AddCustomFilterCall
    \/ UpdateConfigCall

FilterSpec == FilterInit /\ [][FilterNext]_vars


(***************************************************************************)
(* Calls on the coordinator                                                *)
(***************************************************************************)
Did(op, outcome) == last' = Call(op, outcome, <<>>, <<>>)

\* an initialize() without its first guard, and one without its second
NeverAlreadyInitialized == FALSE
NoSessionGate(e) == Ret(TRUE)

\* one variant: the gate consults the bot rule only when the flag is set
FlaggedSessionGate(e) ==
    IF filterConfig.enableBotDetection THEN IsRealUserSession(FALSE, e)
    ELSE IF ~e.window THEN Ret(FALSE)
    ELSE Ret(HasRealUserIndicators(e))

\* if (this.isInitialized) { warn; return }
IsAlreadyInitialized == isInitialized

\* this.Filter.isRealUserSession(), called without a context
SessionGate(e) == IsRealUserSession(FALSE, e)

\* initialize() up to its await: the two guards, then initializeOpenTelemetry(),
\* which registers the provider unless it throws (sdkOk)
InitializeStart ==
    /\ \E sdkOk \in BOOLEAN :
        IF IsAlreadyInitialized
        THEN /\ Did("initialize", "alreadyInitialized")
             /\ UNCHANGED <<pendingInit, sdkSetups>>
        ELSE LET real == SessionGate(env) IN
             IF real.threw
             THEN /\ Did("initialize", "threw")
                  /\ UNCHANGED <<pendingInit, sdkSetups>>
             ELSE IF ~real.value
             THEN /\ Did("initialize", "skipped")
                  /\ UNCHANGED <<pendingInit, sdkSetups>>
             ELSE IF ~sdkOk
             THEN /\ Did("initialize", "threw")
                  /\ UNCHANGED <<pendingInit, sdkSetups>>
             ELSE /\ pendingInit < MaxPending
                  /\ sdkSetups < MaxSdkSetups
                  /\ sdkSetups' = sdkSetups + 1
                  /\ pendingInit' = pendingInit + 1
                  /\ Did("initialize", "awaiting")
    /\ UNCHANGED <<env, filterConfig, call, userContext, isInitialized, instrumentors,
                   exporters, events, constructed, held, admitted>>

\* initialize() after its await: initializeDomainInstrumentors(), of which the
\* first k constructions succeed, then isInitialized = true
InitializeFinish ==
    /\ pendingInit > 0
    /\ pendingInit' = pendingInit - 1
    /\ \E t \in Times, k \in 0..Len(DomainNames) :
        LET context == GetCurrentUserContext(env, userContext, t) IN
        /\ context.threw => k = 0
        /\ constructed + k <= MaxConstructed
        /\ instrumentors' =
              InitializeDomainInstrumentors(instrumentors, k, context.value, constructed + 1)
        /\ constructed' = constructed + k
        /\ IF k = Len(DomainNames)
           THEN isInitialized' = TRUE /\ Did("initializeResumed", "initialized")
           ELSE isInitialized' = isInitialized /\ Did("initializeResumed", "threw")
    /\ UNCHANGED <<env, filterConfig, call, userContext, exporters, events, sdkSetups,
                   held, admitted>>

\* one variant: the event log survives
KeptEvents(log) == log

\* this.events = []
ClearedEvents(log) == <<>>

\* destroy()
Destroy ==
    /\ instrumentors' = <<>>
    /\ exporters' = <<>>
    /\ events' = ClearedEvents(events)
    /\ isInitialized' = FALSE
    /\ admitted' = FALSE
    /\ last' = Call("destroy", "returned", DestroyHooks(exporters), <<>>)
    /\ UNCHANGED <<env, filterConfig, call, userContext, pendingInit, sdkSetups,
                   constructed, held>>

\* updateUserContext(partial)
UpdateUserContext ==
    /\ \E partial \in PartialContexts, t \in Times :
        LET merged == Spread(userContext, partial)
            context == GetCurrentUserContext(env, merged, t)
        IN /\ userContext' = merged
           /\ IF instrumentors = <<>>
              THEN /\ UNCHANGED <<instrumentors, constructed>>
                   /\ last' = CallWith("updateUserContext", "returned", partial)
              ELSE IF context.threw
              THEN /\ UNCHANGED <<instrumentors, constructed>>
                   /\ last' = CallWith("updateUserContext", "threw", partial)
              ELSE /\ constructed + Len(instrumentors) <= MaxConstructed
                   /\ instrumentors' = RebuildInstrumentors(instrumentors, Len(instrumentors),
                                                            context.value, constructed + 1)
                   /\ constructed' = constructed + Len(instrumentors)
                   /\ last' = CallWith("updateUserContext", "returned", partial)
    /\ UNCHANGED <<env, filterConfig, call, isInitialized, exporters, events,
                   pendingInit, sdkSetups, held, admitted>>

\* addFilter(predicate), while the list is shorter than most
AddFilterUpTo(most) ==
    /\ Len(filterConfig.customFilters.list) < most
    /\ \E predicate \in Predicates :
        filterConfig' = AddCustomFilter(filterConfig, predicate)
    /\ Did("addFilter", "returned")
    /\ UNCHANGED <<env, call, userContext, isInitialized, instrumentors, exporters,
                   events, pendingInit, sdkSetups, constructed, held, admitted>>

AddFilter == AddFilterUpTo(MaxAdded)

\* Array.prototype.join
RECURSIVE Join(_, _)
Join(seq, sep) ==
    IF seq = <<>> THEN ""
    ELSE IF Len(seq) = 1 THEN seq[1]
    ELSE seq[1] \o sep \o Join(Tail(seq), sep)

\* one variant: the message names the key only
NotFoundMessageWithoutList(name, keys) == "Domain instrumentor not found: " \o name

\* the message of the error getDomainInstrumentor throws
NotFoundMessage(name, keys) ==
    "Domain instrumentor not found: " \o name \o ". Available domains: " \o Join(keys, ", ")

\* the names the host asks for
RequestedNames == Range(DomainNames) \cup {"nonexistent"}

\* getDomainInstrumentor(name): the host keeps the reference it gets
GetDomainInstrumentor ==
    /\ \E name \in RequestedNames :
        IF MapHas(instrumentors, name)
        THEN /\ held' = IF Cardinality(held) < MaxHeld
                        THEN held \cup {MapGet(instrumentors, name)}
                        ELSE {MapGet(instrumentors, name)}
             /\ last' = CallWith("getDomainInstrumentor", "returned",
                                 [name |-> name, result |-> MapGet(instrumentors, name)])
        ELSE /\ held' = held
             /\ last' = CallWith("getDomainInstrumentor", "threw",
                                 [name |-> name,
                                  result |-> NotFoundMessage(name, Keys(instrumentors))])
    /\ UNCHANGED <<env, filterConfig, call, userContext, isInitialized, instrumentors,
                   exporters, events, pendingInit, sdkSetups, constructed, admitted>>

\* one variant: the event is put at the head of the log
UnshiftEvent(log, event) == <<event>> \o log

\* this.events.push(event)
PushEvent(log, event) == Append(log, event)

\* handleTelemetryEvent(event), t being Date.now(); an export that throws or
\* rejects (failed) is caught inside its own async callback
HandleTelemetryEvent(event, t) ==
    LET context == GetCurrentUserContext(env, userContext, t) IN
    IF context.threw
    THEN UNCHANGED <<events, admitted>> /\ last' = EmitFailed(event)
    ELSE LET first == ShouldProcess(filterConfig, event, context.value, env, 0) IN
         \E draw \in IF first.drew THEN Draws ELSE {0} :
            LET decision == ShouldProcess(filterConfig, event, context.value, env, draw) IN
            IF decision.threw
            THEN UNCHANGED <<events, admitted>> /\ last' = Emitted("threw", event, <<>>, {})
            ELSE IF ~decision.value
            THEN UNCHANGED <<events, admitted>> /\ last' = Emitted("filtered", event, <<>>, {})
            ELSE /\ events' = PushEvent(events, event)
                 /\ admitted' = TRUE
                 /\ \E failed \in SUBSET Range(exporters) :
                       last' = Emitted(ExportFailureCaught(failed), event,
                                       ExportToAll(exporters), failed)

\* trackError(error) or recordBusinessMetric(name, value) on a held
\* instrumentor: its event goes to the sink the instrumentor was built with
EmitFromInstrumentor ==
    /\ Len(events) < MaxEvents
    /\ \E inst \in held, t \in Times :
        \/ HandleTelemetryEvent(TrackErrorEvent(inst), t)
        \/ HandleTelemetryEvent(RecordBusinessMetricEvent(inst), t)
    /\ UNCHANGED <<env, filterConfig, call, userContext, isInitialized, instrumentors,
                   exporters, pendingInit, sdkSetups, constructed, held>>

\* the globals of the page the coordinator runs in: a browser, a crawler,
\* and a host without browser globals
CoordinatorEnvironments ==
    { OrdinaryBrowser,
      [OrdinaryBrowser EXCEPT !.userAgent = "Googlebot/2.1"],
      [OrdinaryBrowser EXCEPT !.window = FALSE, !.navigator = FALSE, !.screen = FALSE,
                              !.location = FALSE, !.document = FALSE] }

\* config.filtering as given to the constructor
TestFiltering ==
    [enableBotDetection |-> TRUE, domainWhitelist |-> Present(<<"localhost">>),
     samplingRate |-> RateScale, excludeExtensions |-> TRUE, customFilters |-> Absent]

SampleNothingFiltering ==
    [enableBotDetection |-> FALSE, domainWhitelist |-> Present(<<"localhost">>),
     samplingRate |-> 0, excludeExtensions |-> FALSE, customFilters |-> Absent]

Init ==
    /\ env \in CoordinatorEnvironments
    /\ filterConfig \in {TestFiltering, SampleNothingFiltering}
    /\ call = Idle
    /\ Constructed

Next ==
    \/ InitializeStart
    \/ InitializeFinish
    \/ Destroy
    \/ UpdateUserContext
    \/ AddFilter
    \/ GetDomainInstrumentor
    \/ EmitFromInstrumentor

Spec == Init /\ [][Next]_vars

(***************************************************************************)
(* The round trip destroy(); await initialize() on an initialized          *)
(* coordinator with nothing else in flight                                 *)
(***************************************************************************)
\* the events the instrumentors of an initialized coordinator emit
InstrumentorEvents(m) ==
    UNION {{TrackErrorEvent(m[i]), RecordBusinessMetricEvent(m[i])} : i \in 1..Len(m)}

\* the state after new ObservMetrics(config), await initialize() at clock t
\* and a log of admitted events
RoundTripInit ==
    /\ env = OrdinaryBrowser
    /\ filterConfig = TestFiltering
    /\ call = Idle
    /\ userContext \in InitialUserContexts
    /\ \E platform \in Platforms : exporters = SetupExporters(platform)
    /\ \E t \in Times :
          instrumentors = InitializeDomainInstrumentors(
              <<>>, Len(DomainNames), GetCurrentUserContext(env, userContext, t).value, 1)
    /\ isInitialized = TRUE
    /\ events \in SeqsUpTo(InstrumentorEvents(instrumentors), MaxEvents)
    /\ admitted = (events # <<>>)
    /\ pendingInit = 0
    /\ sdkSetups = 1
    /\ constructed = Len(DomainNames)
    /\ held \in {{}} \cup {{instrumentors[i]} : i \in 1..Len(instrumentors)}
    /\ last = IF events = <<>>
              THEN Call("initializeResumed", "initialized", <<>>, <<>>)
              ELSE Emitted("admitted", events[Len(events)], ExportToAll(exporters), {})

RoundTripNext ==
    \/ last.op \in {"initializeResumed", "emit"} /\ Destroy
    \/ last.op = "destroy" /\ InitializeStart
    \/ last.op = "initialize" /\ last.outcome = "awaiting" /\ InitializeFinish

RoundTripSpec == RoundTripInit /\ [][RoundTripNext]_vars

(***************************************************************************)
(* instrumentApiCall on an instrumentor of an initialized coordinator       *)
(***************************************************************************)
\* Math.random() * 300: the jitter is below JitterRange
JitterRange == 300
Jitters == {0, JitterRange \div 2, JitterRange - 1}
Lags == 0..MaxLag

\* the DomainConfig an instrumentor is constructed with; errorThreshold is in
\* the unit of a draw, 1/(2*RateScale)
Priorities == {"critical", "high"}
SlaTargets == {1, 100, 250, 2000}
ErrorThresholds == {0, 1, 2 * RateScale}
DomainConfigs(name) ==
    { [name |-> name, priority |-> p, slaTarget |-> sla, errorThreshold |-> th] :
        p \in Priorities, sla \in SlaTargets, th \in ErrorThresholds }

\* baseLatency + jitter, the delay of the timer executeApiCall awaits
ExecuteApiCallLatency(domain, jitter) ==
    (IF domain.priority = "critical" THEN 100 ELSE 200) + jitter

\* if (Math.random() < this.domain.errorThreshold) throw new Error(...)
ExecuteApiCallRejects(draw, domain) == draw < domain.errorThreshold

\* the response executeApiCall resolves with
ExecuteApiCallStatus == 200

\* one variant: the target itself counts as a violation
SlaViolatedFromTarget(duration, domain) == duration >= domain.slaTarget

\* const slaViolated = duration > this.domain.slaTarget
SlaViolated(duration, domain) == duration > domain.slaTarget

\* the attributes object built before the await: the domain's name and SLA
\* target, the URL and the user fields
SpanAttributes(domain, context, endpoint) ==
    ("domain.name" :> domain.name) @@ ("domain.sla_target_ms" :> domain.slaTarget)
    @@ ("http.url" :> endpoint)
    @@ ("user.session_id" :> context.sessionId) @@ ("user.segment" :> context.userSegment)
    @@ ("user.authenticated" :> context.isAuthenticated)
    @@ ("user.device_type" :> context.deviceType)

\* getSlaViolationSeverity: the ratio duration / slaTarget against 3, 2, 1.5
GetSlaViolationSeverity(duration, domain) ==
    IF duration > 3 * domain.slaTarget THEN "critical"
    ELSE IF duration > 2 * domain.slaTarget THEN "high"
    ELSE IF 2 * duration > 3 * domain.slaTarget THEN "medium"
    ELSE "low"

\* what span.setAttributes is given after the await: the SLA fields when the
\* target is exceeded, and the response fields
SlaSpanAttributes(duration, domain) ==
    IF SlaViolated(duration, domain)
    THEN ("sla.violated" :> TRUE) @@ ("sla.target_ms" :> domain.slaTarget)
         @@ ("sla.actual_ms" :> duration)
         @@ ("sla.violation_severity" :> GetSlaViolationSeverity(duration, domain))
         @@ ("http.response_time_ms" :> duration)
    ELSE ("http.response_time_ms" :> duration)

\* the event of the try block, after emitTelemetryEvent's defaults; user is
\* the context the instrumentor was constructed with (the user.* attributes)
SpanEvent(domain, context, endpoint, slaViolated) ==
    [severity |-> IF slaViolated THEN "warn" ELSE "info",
     httpUrl |-> endpoint, url |-> "", stack |-> "",
     eventType |-> "span", domain |-> domain.name, user |-> context,
     attributes |-> SpanAttributes(domain, context, endpoint)]

\* the event of the catch block
ErrorEvent(domain, error) ==
    [severity |-> "error", httpUrl |-> "", url |-> "",
     stack |-> ErrorStack(error),
     eventType |-> "error", domain |-> domain.name]

\* the value the try block returns
SuccessResult(duration, slaViolated) ==
    [success |-> TRUE, duration |-> duration,
     customMetrics |-> [sla_violated |-> IF slaViolated THEN 1 ELSE 0,
                        response_status |-> ExecuteApiCallStatus]]

\* one variant: the catch block reports the call as a success
FailureAsSuccess(duration, error) ==
    [success |-> TRUE, duration |-> duration, error |-> error,
     customMetrics |-> [error_occurred |-> 0]]

\* the value the catch block returns
FailureResult(duration, error) ==
    [success |-> FALSE, duration |-> duration, error |-> error,
     customMetrics |-> [error_occurred |-> 1]]

\* this.onEvent(event) with the coordinator's handleTelemetryEvent as the
\* sink: every way the sink can end on the log it is given, t being Date.now()
SinkResults(log, event, t) ==
    LET context == GetCurrentUserContext(env, userContext, t) IN
    IF context.threw
    THEN {[threw |-> TRUE, log |-> log, last |-> EmitFailed(event)]}
    ELSE LET first == ShouldProcess(filterConfig, event, context.value, env, 0) IN
         { LET decision == ShouldProcess(filterConfig, event, context.value, env, draw) IN
           IF decision.threw
           THEN [threw |-> TRUE, log |-> log, last |-> Emitted("threw", event, <<>>, {})]
           ELSE IF ~decision.value
           THEN [threw |-> FALSE, log |-> log, last |-> Emitted("filtered", event, <<>>, {})]
           ELSE [threw |-> FALSE, log |-> PushEvent(log, event),
                 last |-> Emitted(ExportFailureCaught(failed), event,
                                  ExportToAll(exporters), failed)]
           : draw \in (IF first.drew THEN Draws ELSE {0}),
             failed \in SUBSET Range(exporters) }

\* how an instrumented call ends: settled is "resolved" or "rejected"
Settled(c, settled, result, handed) ==
    [op |-> "instrumentApiCall", state |-> settled, inst |-> c.inst,
     domain |-> c.domain, endpoint |-> c.endpoint, latency |-> c.latency, rejects |-> c.rejects,
     result |-> result, handed |-> handed]

NoResult == [success |-> FALSE]

\* the catch block: the error event goes to the sink, and what the sink
\* throws leaves the call through the finally block
CatchBlock(c, log, error, duration, handed, t) ==
    LET event == ErrorEvent(c.domain, error) IN
    { [log |-> s.log, last |-> s.last,
       call |-> IF s.threw
                THEN Settled(c, "rejected", NoResult, Append(handed, event))
                ELSE Settled(c, "resolved", FailureResult(duration, error),
                             Append(handed, event))]
      : s \in SinkResults(log, event, t) }

\* the try block after the await: the span event goes to the sink inside the
\* try, so what the sink throws is handled by the catch block
TryBlock(c, log, duration, t) ==
    LET slaViolated == SlaViolated(duration, c.domain)
        event == SpanEvent(c.domain, c.inst.context, c.endpoint, slaViolated)
    IN  UNION { IF s.threw
                THEN CatchBlock(c, s.log, SinkError, duration, <<event>>, t)
                ELSE {[log |-> s.log, last |-> s.last,
                       call |-> Settled(c, "resolved",
                                        SuccessResult(duration, slaViolated), <<event>>)]}
                : s \in SinkResults(log, event, t) }

\* instrumentApiCall up to "await this.executeApiCall(endpoint, method)":
\* the executor has drawn its jitter and its error draw and started its timer
InstrumentApiCallStart ==
    /\ IF call.op = "idle" THEN TRUE ELSE call.state # "awaiting"
    /\ Len(events) < MaxEvents
    /\ \E inst \in held, endpoint \in Endpoints, jitter \in Jitters, draw \in Draws :
        \E domain \in DomainConfigs(inst.name) :
            call' = [op |-> "instrumentApiCall", state |-> "awaiting", inst |-> inst,
                     domain |-> domain, endpoint |-> endpoint,
                     latency |-> ExecuteApiCallLatency(domain, jitter),
                     rejects |-> ExecuteApiCallRejects(draw, domain)]
    /\ UNCHANGED <<env, filterConfig, coordVars>>

\* instrumentApiCall after its await: duration = Date.now() - startTime is the
\* timer's delay and its lag; then the try block or the catch block
InstrumentApiCallFinish ==
    /\ call.op = "instrumentApiCall" /\ call.state = "awaiting"
    /\ \E lag \in Lags, t \in Times :
        LET duration == call.latency + lag IN
        \E end \in (IF call.rejects
                    THEN CatchBlock(call, events, ExecuteApiCallError(call.endpoint),
                                    duration, <<>>, t)
                    ELSE TryBlock(call, events, duration, t)) :
            /\ call' = end.call
            /\ events' = end.log
            /\ last' = end.last
            /\ admitted' = (admitted \/ end.log # events)
    /\ UNCHANGED <<env, filterConfig, userContext, isInitialized, instrumentors,
                   exporters, pendingInit, sdkSetups, constructed, held>>

\* instrumentUserJourney(journeyName, stepName, operation)
\* the journeySteps table of getStepNumber
journeySteps ==
    [user_login_flow |-> <<"load_login_page", "enter_credentials", "submit_login",
                           "redirect_dashboard">>,
     purchase_flow |-> <<"add_to_cart", "view_cart", "enter_shipping", "select_payment",
                         "complete_purchase">>,
     product_discovery |-> <<"search_query", "view_results", "filter_results",
                             "select_product">>]

\* property names every object literal inherits: journeySteps[name] is then a
\* function, which has no indexOf
InheritedKeys == {"constructor"}

JourneyNames == {"user_login_flow", "purchase_flow", "signup_flow", "constructor"}
StepNames == {"enter_credentials", "complete_purchase", "unknown_step"}

\* Array.prototype.indexOf, -1 when absent
IndexOf(seq, x) ==
    IF \E i \in 1..Len(seq) : seq[i] = x
    THEN (CHOOSE i \in 1..Len(seq) : seq[i] = x /\ \A j \in 1..(i - 1) : seq[j] # x) - 1
    ELSE 0 - 1

\* one variant: the step's 0-based index
GetStepNumberFromZero(journeyName, stepName) ==
    IF journeyName \in InheritedKeys THEN Throw
    ELSE IF journeyName \in DOMAIN journeySteps
    THEN Ret(IndexOf(journeySteps[journeyName], stepName))
    ELSE Ret(0)

\* getStepNumber: (journeySteps[journeyName] || []).indexOf(stepName) + 1
GetStepNumber(journeyName, stepName) ==
    IF journeyName \in InheritedKeys THEN Throw
    ELSE IF journeyName \in DOMAIN journeySteps
    THEN Ret(IndexOf(journeySteps[journeyName], stepName) + 1)
    ELSE Ret(IndexOf(<<>>, stepName) + 1)

\* getJourneyBusinessImpact: impactMap[journeyName] || 'engagement'
GetJourneyBusinessImpact(journeyName) ==
    IF journeyName = "purchase_flow" THEN "revenue" ELSE "engagement"

\* how the wrapped operation ends: it resolves, it rejects with an Error (or
\* throws one before returning a promise), it rejects without a reason
OperationError == [name |-> "Error", message |-> "Login failed"]
\* undefined, the reason of reject(): reading a property of it throws
NoReason == [name |-> "undefined", message |-> "undefined"]
StepNumberError == [name |-> "TypeError", message |-> "steps.indexOf is not a function"]
OperationOutcomes == {"resolves", "rejects", "throws", "rejectsWithoutReason"}
OperationDurations == {0, 50}

\* the event of the journey's try block
JourneyEvent(domain, context, journeyName, stepName, stepNumber) ==
    [severity |-> "info", httpUrl |-> "", url |-> "", stack |-> "",
     eventType |-> "span", domain |-> domain.name,
     user |-> [sessionId |-> context.sessionId, userSegment |-> context.userSegment],
     name |-> domain.name \o ".journey." \o journeyName \o "." \o stepName,
     userJourney |-> journeyName, stepNumber |-> stepNumber,
     businessImpact |-> GetJourneyBusinessImpact(journeyName)]

JourneySuccess(duration) ==
    [success |-> TRUE, duration |-> duration,
     customMetrics |-> [journey_step_completed |-> 1, step_duration_ms |-> duration]]

\* one variant: a failed step is counted as completed
JourneyFailureAsCompleted(duration, error) ==
    [success |-> FALSE, duration |-> duration, error |-> error,
     customMetrics |-> [journey_step_completed |-> 1]]

JourneyFailure(duration, error) ==
    [success |-> FALSE, duration |-> duration, error |-> error,
     customMetrics |-> [journey_step_failed |-> 1]]

JourneySettled(c, settled, result, handed) ==
    [op |-> "instrumentUserJourney", state |-> settled, inst |-> c.inst,
     domain |-> c.domain,
     journeyName |-> c.journeyName, stepName |-> c.stepName,
     operation |-> c.operation, took |-> c.took,
     result |-> result, handed |-> handed]

\* the journey's catch block: it reads error.message and error.name, which
\* throws a TypeError when the rejection carries no reason, and emits nothing
JourneyCatchBlock(c, error, duration, handed) ==
    IF error = NoReason
    THEN JourneySettled(c, "rejected", NoResult, handed)
    ELSE JourneySettled(c, "resolved", JourneyFailure(duration, error), handed)

\* the journey's try block after the await
JourneyTryBlock(c, log, duration, t) ==
    LET event == JourneyEvent(c.domain, c.inst.context, c.journeyName, c.stepName,
                              GetStepNumber(c.journeyName, c.stepName).value)
    IN  { [log |-> s.log, last |-> s.last,
           call |-> IF s.threw
                    THEN JourneyCatchBlock(c, SinkError, duration, <<event>>)
                    ELSE JourneySettled(c, "resolved", JourneySuccess(duration), <<event>>)]
          : s \in SinkResults(log, event, t) }

\* the DomainConfig of the test configuration
TestDomain(name) ==
    [name |-> name, priority |-> "critical", slaTarget |-> 2000, errorThreshold |-> 0]

\* instrumentUserJourney up to "await operation()"; when getStepNumber throws
\* the catch block runs before the operation is called
InstrumentUserJourneyStart ==
    /\ IF call.op = "idle" THEN TRUE ELSE call.state # "awaiting"
    /\ Len(events) < MaxEvents
    /\ \E inst \in held, journeyName \in JourneyNames, stepName \in StepNames,
          operation \in OperationOutcomes, took \in OperationDurations :
        LET c == [op |-> "instrumentUserJourney", state |-> "awaiting", inst |-> inst,
                  domain |-> TestDomain(inst.name),
                  journeyName |-> journeyName, stepName |-> stepName,
                  operation |-> operation, took |-> took]
        IN  call' = IF GetStepNumber(journeyName, stepName).threw
                    THEN JourneyCatchBlock([c EXCEPT !.operation = "notCalled", !.took = 0],
                                           StepNumberError, 0, <<>>)
                    ELSE c
    /\ UNCHANGED <<env, filterConfig, coordVars>>

\* instrumentUserJourney after its await
InstrumentUserJourneyFinish ==
    /\ call.op = "instrumentUserJourney" /\ call.state = "awaiting"
    /\ \E lag \in Lags, t \in Times :
        LET duration == call.took + lag IN
        IF call.operation = "resolves"
        THEN \E end \in JourneyTryBlock(call, events, duration, t) :
                /\ call' = end.call
                /\ events' = end.log
                /\ last' = end.last
                /\ admitted' = (admitted \/ end.log # events)
        ELSE /\ call' = JourneyCatchBlock(
                            call,
                            IF call.operation = "rejectsWithoutReason"
                            THEN NoReason ELSE OperationError,
                            duration, <<>>)
             /\ UNCHANGED <<events, last, admitted>>
    /\ UNCHANGED <<env, filterConfig, userContext, isInitialized, instrumentors,
                   exporters, pendingInit, sdkSetups, constructed, held>>

\* an initialized coordinator with an empty log whose host holds one of its
\* instrumentors
InitializedCoordinator ==
    /\ env = OrdinaryBrowser
    /\ filterConfig \in {TestFiltering, SampleNothingFiltering}
    /\ userContext \in InitialUserContexts
    /\ \E platform \in Platforms : exporters = SetupExporters(platform)
    /\ \E t \in Times :
          instrumentors = InitializeDomainInstrumentors(
              <<>>, Len(DomainNames), GetCurrentUserContext(env, userContext, t).value, 1)
    /\ isInitialized = TRUE
    /\ events = <<>>
    /\ admitted = FALSE
    /\ pendingInit = 0
    /\ sdkSetups = 1
    /\ constructed = Len(DomainNames)
    /\ held \in {{instrumentors[i]} : i \in 1..Len(instrumentors)}
    /\ last = Call("initializeResumed", "initialized", <<>>, <<>>)

InstrumentorInit == call = Idle /\ InitializedCoordinator

InstrumentorNext ==
    \/ InstrumentApiCallStart
    \/ InstrumentApiCallFinish

InstrumentorSpec == InstrumentorInit /\ [][InstrumentorNext]_vars

\* the same coordinator, its host instrumenting journey steps
JourneyNext ==
    \/ InstrumentUserJourneyStart
    \/ InstrumentUserJourneyFinish

JourneySpec == InstrumentorInit /\ [][JourneyNext]_vars

\* the coordinator of the test configuration, its host adding predicates
\* between instrumented API calls
AddFilterInit ==
    /\ InstrumentorInit
    /\ filterConfig = TestFiltering
    /\ userContext.sessionId # ""
    /\ exporters = SetupExporters("datadog")

AddFilterNext ==
    \/ AddFilterUpTo(MaxFilters)
    \/ InstrumentApiCallStart
    \/ InstrumentApiCallFinish

AddFilterSpec == AddFilterInit /\ [][AddFilterNext]_vars

\* the round trip, after which the host asks for instrumentors and emits
\* through them
ReinitializedNext ==
    \/ RoundTripNext
    \/ sdkSetups = 2 /\ isInitialized /\ GetDomainInstrumentor
    \/ sdkSetups = 2 /\ isInitialized /\ EmitFromInstrumentor

ReinitializedSpec == RoundTripInit /\ [][ReinitializedNext]_vars

\* one lifecycle of a coordinator, from its construction up to, and not
\* including, its next destroy()
LifecycleNext ==
    \/ InitializeStart
    \/ InitializeFinish
    \/ GetDomainInstrumentor
    \/ EmitFromInstrumentor

LifecycleSpec == Init /\ [][LifecycleNext]_vars

(***************************************************************************)
(* Concurrent invocations on one instrumentor                               *)
(***************************************************************************)
MaxInFlight == 2

\* the domains the invocations run on: the test domain, and one whose
\* executor fails on every draw
ConcurrentDomains(name) ==
    { TestDomain(name), [TestDomain(name) EXCEPT !.errorThreshold = 2 * RateScale] }

ConcurrentJourneys == {"purchase_flow"}
ConcurrentSteps == {"complete_purchase"}

\* Date.now() - startTime, startTime being a local of the invocation
Elapsed(now, invocation) == now - invocation.started

\* no invocation has been made; now is the clock of the host's event loop
NoInvocations == [op |-> "concurrent", now |-> 0, calls |-> <<>>]

\* instrumentApiCall up to its await: startTime is read, the executor's timer
\* is due after the latency
ConcurrentApiCallStartUpTo(most) ==
    /\ Len(call.calls) < most
    /\ \E inst \in held, endpoint \in Endpoints, jitter \in Jitters, draw \in Draws :
        \E domain \in ConcurrentDomains(inst.name) :
            call' = [call EXCEPT !.calls = Append(@,
                      [started |-> call.now,
                       due |-> call.now + ExecuteApiCallLatency(domain, jitter),
                       c |-> [op |-> "instrumentApiCall", state |-> "awaiting",
                              inst |-> inst, domain |-> domain, endpoint |-> endpoint,
                              latency |-> ExecuteApiCallLatency(domain, jitter),
                              rejects |-> ExecuteApiCallRejects(draw, domain)]])]
    /\ UNCHANGED <<env, filterConfig, coordVars>>

\* instrumentUserJourney up to "await operation()": the operation settles
\* after took
ConcurrentJourneyStartOf(most, outcomes) ==
    /\ Len(call.calls) < most
    /\ \E inst \in held, journeyName \in ConcurrentJourneys, stepName \in ConcurrentSteps,
          operation \in outcomes, took \in OperationDurations :
            call' = [call EXCEPT !.calls = Append(@,
                      [started |-> call.now,
                       due |-> call.now + took,
                       c |-> [op |-> "instrumentUserJourney", state |-> "awaiting",
                              inst |-> inst, domain |-> TestDomain(inst.name),
                              journeyName |-> journeyName, stepName |-> stepName,
                              operation |-> operation, took |-> took]])]
    /\ UNCHANGED <<env, filterConfig, coordVars>>

ConcurrentApiCallStart == ConcurrentApiCallStartUpTo(MaxInFlight)

ConcurrentJourneyStart == ConcurrentJourneyStartOf(MaxInFlight, OperationOutcomes)

\* a timer fires; an operation settles unless its promise never does
WillSettle(invocation) ==
    IF invocation.c.op = "instrumentApiCall" THEN TRUE
    ELSE invocation.c.operation # "neverSettles"

\* time passes until the timer or the operation of an invocation is due, or
\* later by the lag of the event loop
ConcurrentAdvance ==
    /\ \E i \in 1..Len(call.calls), lag \in Lags :
        /\ call.calls[i].c.state = "awaiting"
        /\ WillSettle(call.calls[i])
        /\ call.calls[i].due + lag > call.now
        /\ call' = [call EXCEPT !.now = call.calls[i].due + lag]
    /\ UNCHANGED <<env, filterConfig, coordVars>>

\* the code after the await of an invocation c, on the log it finds
InvocationEnds(c, log, duration, t) ==
    IF c.op = "instrumentApiCall"
    THEN IF c.rejects
         THEN CatchBlock(c, log, ExecuteApiCallError(c.endpoint), duration, <<>>, t)
         ELSE TryBlock(c, log, duration, t)
    ELSE IF c.operation = "resolves"
         THEN JourneyTryBlock(c, log, duration, t)
         ELSE { [log |-> log, last |-> last,
                 call |-> JourneyCatchBlock(c, IF c.operation = "rejectsWithoutReason"
                                               THEN NoReason ELSE OperationError,
                                            duration, <<>>)] }

\* an invocation whose timer or operation is due continues after its await
ConcurrentFinish ==
    /\ \E i \in 1..Len(call.calls), t \in Times :
        /\ call.calls[i].c.state = "awaiting"
        /\ WillSettle(call.calls[i])
        /\ call.now >= call.calls[i].due
        /\ \E end \in InvocationEnds(call.calls[i].c, events,
                                      Elapsed(call.now, call.calls[i]), t) :
            /\ call' = [call EXCEPT !.calls[i].c = end.call]
            /\ events' = end.log
            /\ last' = end.last
            /\ admitted' = (admitted \/ end.log # events)
    /\ UNCHANGED <<env, filterConfig, userContext, isInitialized, instrumentors,
                   exporters, pendingInit, sdkSetups, constructed, held>>

ConcurrentInit ==
    /\ call = NoInvocations
    /\ InitializedCoordinator
    /\ exporters = SetupExporters("console")

ConcurrentNext ==
    \/ ConcurrentApiCallStart
    \/ ConcurrentJourneyStart
    \/ ConcurrentAdvance
    \/ ConcurrentFinish
    \/ Destroy

ConcurrentSpec == ConcurrentInit /\ [][ConcurrentNext]_vars

(***************************************************************************)
(* Two coordinators and the filtering objects they were constructed from    *)
(***************************************************************************)
\* filterConfig is here the host's memory: the filtering objects by
\* reference; call.filterOf[k] is the object the Filter of coordinator k
\* holds, call.passed[k] the object the caller passed to its constructor
Coordinators == 1..2

\* new ObservMetrics(config): { userContext: {}, ...config, platform } copies
\* the top level only and new Filter(this.config.filtering) keeps the
\* reference, so the Filter holds the object the caller passed
ConstructFilter(passedRef) == passedRef

\* the objects the host starts from: with a list of custom filters or
\* without one, as defaultConfigs.ecommerce.filtering
SharedFilterings ==
    { TestFiltering, [TestFiltering EXCEPT !.customFilters = Present(<<"dropInfo">>)] }

\* both coordinators are constructed, from one filtering object or from two
\* objects with the same content
TwoCoordinatorsInit ==
    /\ env = OrdinaryBrowser
    /\ \E filtering \in SharedFilterings :
          filterConfig = [ref \in Coordinators |-> filtering]
    /\ \E passed \in {<<1, 1>>, <<1, 2>>} :
          call = [op |-> "coordinators", passed |-> passed,
                  filterOf |-> [k \in Coordinators |-> ConstructFilter(passed[k])]]
    /\ Constructed

\* coordinator k's addFilter(predicate): addCustomFilter creates the list on
\* the object its Filter holds, or pushes to that object's list
AddFilterOn ==
    /\ \E k \in Coordinators, predicate \in Predicates :
        /\ Len(filterConfig[call.filterOf[k]].customFilters.list) < MaxFilters
        /\ filterConfig' = [filterConfig EXCEPT ![call.filterOf[k]] =
                                AddCustomFilter(@, predicate)]
        /\ last' = CallWith("addFilter", "returned", [coordinator |-> k])
    /\ UNCHANGED <<env, call, userContext, isInitialized, instrumentors, exporters,
                   events, pendingInit, sdkSetups, constructed, held, admitted>>

\* coordinator k's Filter decides on an event
DecideOn ==
    /\ \E k \in Coordinators, event \in Events, draw \in Draws :
        LET decision == ShouldProcess(filterConfig[call.filterOf[k]], event,
                                      TestContext, env, draw)
        IN last' = CallWith("shouldProcess",
                            IF decision.value THEN "admitted" ELSE "filtered",
                            [coordinator |-> k])
    /\ UNCHANGED <<env, filterConfig, call, userContext, isInitialized, instrumentors,
                   exporters, events, pendingInit, sdkSetups, constructed, held, admitted>>

TwoCoordinatorsNext ==
    \/ AddFilterOn
    \/ DecideOn

TwoCoordinatorsSpec == TwoCoordinatorsInit /\ [][TwoCoordinatorsNext]_vars

\* invocations on a coordinator whose custom filter may throw, so that the
\* sink throws on every event the filter is asked about
SinkFailureFilterings ==
    { TestFiltering, [TestFiltering EXCEPT !.customFilters = Present(<<"throwsError">>)] }

SinkFailureInit ==
    /\ call = NoInvocations
    /\ env = OrdinaryBrowser
    /\ filterConfig \in SinkFailureFilterings
    /\ userContext \in InitialUserContexts
    /\ exporters = SetupExporters("console")
    /\ instrumentors = InitializeDomainInstrumentors(
              <<>>, Len(DomainNames), GetCurrentUserContext(env, userContext, 0).value, 1)
    /\ isInitialized = TRUE
    /\ events = <<>>
    /\ admitted = FALSE
    /\ pendingInit = 0
    /\ sdkSetups = 1
    /\ constructed = Len(DomainNames)
    /\ held \in {{instrumentors[i]} : i \in 1..Len(instrumentors)}
    /\ last = Call("initializeResumed", "initialized", <<>>, <<>>)

SinkFailureNext ==
    \/ ConcurrentApiCallStart
    \/ ConcurrentJourneyStart
    \/ ConcurrentAdvance
    \/ ConcurrentFinish

SinkFailureSpec == SinkFailureInit /\ [][SinkFailureNext]_vars

\* invocations whose wrapped operation may never settle, under an event loop
\* that keeps running: a timer that is due fires, a continuation whose
\* promise has settled runs
MaxAwaited == 1

ConcurrentOrNeverOutcomes == OperationOutcomes \cup {"neverSettles"}

AwaitNext ==
    \/ ConcurrentApiCallStartUpTo(MaxAwaited)
    \/ ConcurrentJourneyStartOf(MaxAwaited, ConcurrentOrNeverOutcomes)
    \/ ConcurrentAdvance
    \/ ConcurrentFinish

AwaitSpec ==
    /\ ConcurrentInit
    /\ [][AwaitNext]_vars
    /\ WF_vars(ConcurrentAdvance)
    /\ WF_vars(ConcurrentFinish)

\* the coordinator of the test configuration with or without a configured
\* user context; its host updates the context, asks for instrumentors and runs
\* API calls on the references it holds
ContextInit ==
    /\ InstrumentorInit
    /\ filterConfig = TestFiltering
    /\ exporters = SetupExporters("console")

ContextNext ==
    \/ UpdateUserContext
    \/ GetDomainInstrumentor
    \/ InstrumentApiCallStart /\ call'.domain = TestDomain(call'.domain.name)
    \/ InstrumentApiCallFinish

ContextSpec == ContextInit /\ [][ContextNext]_vars

(***************************************************************************)
(* trackError and recordBusinessMetric on an instrumentor                   *)
(***************************************************************************)
MetricNames ==
    { "cart_value", "revenue_per_user", "purchase_count", "login_latency",
      "api_latency", "engagement_performance", "performance_revenue", "error_rate" }
MetricValues == { 0, 999 }

\* emitTelemetryEvent(eventData): if (this.onEvent) { ...; this.onEvent(event) }
\* on the coordinator's sink; every way the call can end
EmitTelemetryEvent(inst, event, log, t) ==
    IF inst.onEvent
    THEN { [log |-> s.log, last |-> s.last, handed |-> <<event>>, threw |-> s.threw]
           : s \in SinkResults(log, event, t) }
    ELSE { [log |-> log, last |-> last, handed |-> <<>>, threw |-> FALSE] }

\* instrumentor.recordBusinessMetric(metricName, value)
RecordBusinessMetricCall ==
    /\ Len(events) < MaxEvents
    /\ \E inst \in held, metricName \in MetricNames, value \in MetricValues, t \in Times :
        \E end \in EmitTelemetryEvent(inst, RecordBusinessMetric(inst, metricName, value),
                                      events, t) :
            /\ call' = [op |-> "recordBusinessMetric", inst |-> inst,
                        metricName |-> metricName, value |-> value,
                        handed |-> end.handed, threw |-> end.threw]
            /\ events' = end.log
            /\ last' = end.last
            /\ admitted' = (admitted \/ end.log # events)
    /\ UNCHANGED <<env, filterConfig, userContext, isInitialized, instrumentors,
                   exporters, pendingInit, sdkSetups, constructed, held>>

\* instrumentor.trackError(error): the emit is inside try { } finally { }
TrackErrorCall ==
    /\ Len(events) < MaxEvents
    /\ \E inst \in held, error \in TrackedErrors, t \in Times :
        \E end \in EmitTelemetryEvent(inst, TrackError(inst, error), events, t) :
            /\ call' = [op |-> "trackError", inst |-> inst, error |-> error,
                        handed |-> end.handed, threw |-> end.threw]
            /\ events' = end.log
            /\ last' = end.last
            /\ admitted' = (admitted \/ end.log # events)
    /\ UNCHANGED <<env, filterConfig, userContext, isInitialized, instrumentors,
                   exporters, pendingInit, sdkSetups, constructed, held>>

\* pages whose session classification differs: an ordinary browser, a crawler's
\* user agent, a window without outer dimensions
EmitEnvironments ==
    { OrdinaryBrowser,
      [OrdinaryBrowser EXCEPT !.userAgent = "Googlebot/2.1"],
      [OrdinaryBrowser EXCEPT !.outerWidth = 0, !.outerHeight = 0] }

\* config.filtering: the test configuration, no sampling, a whitelist without
\* the page's host, a predicate that rejects everything
EmitFilterings ==
    { TestFiltering,
      SampleNothingFiltering,
      [TestFiltering EXCEPT !.domainWhitelist = Present(<<"example.com">>)],
      [TestFiltering EXCEPT !.customFilters = Present(<<"rejectAll">>)] }

\* an instrumentor constructed without a sink
WithoutSink(inst) == [inst EXCEPT !.onEvent = FALSE]

\* an initialized coordinator with an empty log; the host holds one of its
\* instrumentors or an instrumentor it constructed itself without a sink
EmitInit ==
    /\ env \in EmitEnvironments
    /\ filterConfig \in EmitFilterings
    /\ call = Idle
    /\ userContext = CHOOSE uc \in InitialUserContexts : uc.sessionId # ""
    /\ \E platform \in Platforms : exporters = SetupExporters(platform)
    /\ instrumentors = InitializeDomainInstrumentors(
              <<>>, Len(DomainNames), GetCurrentUserContext(env, userContext, 0).value, 1)
    /\ isInitialized = TRUE
    /\ events = <<>>
    /\ admitted = FALSE
    /\ pendingInit = 0
    /\ sdkSetups = 1
    /\ constructed = Len(DomainNames)
    /\ held \in {{instrumentors[1]}, {WithoutSink(instrumentors[2])}}
    /\ last = Call("initializeResumed", "initialized", <<>>, <<>>)

EmitNext ==
    \/ RecordBusinessMetricCall
    \/ TrackErrorCall
    \/ Destroy

EmitSpec == EmitInit /\ [][EmitNext]_vars

(***************************************************************************)
(* Claims about the filter, checked under FilterSpec                       *)
(***************************************************************************)
IsShouldProcess == call.op = "shouldProcess"
CallFilters == IF filterConfig.customFilters.present THEN filterConfig.customFilters.list ELSE <<>>
Returned(v) == ~call.res.threw /\ call.res.value = v

RefIsBot(e) ==
    \/ e.navigator /\ botPatternHits[e.userAgent]
    \/ e.window /\ (e.chrome = "noRuntime" \/ e.phantom \/ e.outerHeight = 0 \/ e.outerWidth = 0)
    \/ e.window /\ e.navigator /\ e.webdriver
    \/ e.window /\ e.document /\ (e.cdc \/ e.asyncScriptInfo)
    \/ e.window /\ e.navigator /\ e.permissionsQuery = "NotSupportedError"
    \/ e.screen /\ (e.screenWidth = 0 \/ e.screenHeight = 0)

RefUrl(event) == IF event.httpUrl # "" THEN event.httpUrl ELSE event.url

RefRuleMatches(k, cfg, event, context, e, draw) ==
    CASE k = 1 -> event.severity \in {"error", "critical"}
      [] k = 2 -> cfg.enableBotDetection /\ RefIsBot(e)
      [] k = 3 -> /\ cfg.domainWhitelist.present
                  /\ cfg.domainWhitelist.list # <<>>
                  /\ e.window /\ e.location
                  /\ \A i \in 1..Len(cfg.domainWhitelist.list) :
                        cfg.domainWhitelist.list[i] # e.hostname
      [] k = 4 -> noisePatternHits[RefUrl(event)]
      [] k = 5 -> cfg.excludeExtensions /\ extensionPatternHits[RefUrl(event)][event.stack]
      [] k = 6 -> /\ cfg.customFilters.present
                  /\ \E i \in 1..Len(cfg.customFilters.list) :
                        ~ApplyPredicate(cfg.customFilters.list[i], event, context)
      [] k = 7 -> draw > 2 * cfg.samplingRate
      [] k = 8 -> TRUE

RefRuleVerdict(k) == k \in {1, 8}

RefFirstRule(cfg, event, context, e, draw) ==
    CHOOSE k \in 1..8 :
        /\ RefRuleMatches(k, cfg, event, context, e, draw)
        /\ \A j \in 1..(k - 1) : ~RefRuleMatches(j, cfg, event, context, e, draw)

RefDecision(cfg, event, context, e, draw) ==
    RefRuleVerdict(RefFirstRule(cfg, event, context, e, draw))

\* the draws the call may have made: the one it made, or any when it made none
CallDraws == IF call.res.drew THEN {call.draw} ELSE Draws

\* C2: shouldProcess returns what the eight-rule reference decision returns,
\* for every event, environment and filter configuration.
C2_MatchesReference ==
    IsShouldProcess =>
        \A draw \in CallDraws :
            Returned(RefDecision(filterConfig, call.event, TestContext, env, draw))

\* where shouldProcess returns at all, it returns the reference decision
C2_ReturnsOnlyReference ==
    (IsShouldProcess /\ ~call.res.threw) =>
        \A draw \in CallDraws :
            call.res.value = RefDecision(filterConfig, call.event, TestContext, env, draw)

\* C3: an event that is not error/critical and carries a noise URL in
\* attributes['http.url'] or in attributes['url'] is rejected, whichever key
\* holds it and whatever the other key holds: a call that returns, returns
\* false (the calls that throw are C6's).
C3_NoiseInEitherKey ==
    (/\ IsShouldProcess /\ ~call.res.threw
     /\ call.event.severity \notin {"error", "critical"}
     /\ noisePatternHits[call.event.httpUrl] \/ noisePatternHits[call.event.url])
    => call.res.value = FALSE

\* C4: with samplingRate 0 every event that is not error/critical is rejected,
\* whatever the draw (the draw 0 included); with samplingRate 1 the sampling
\* rule rejects nothing.  Stated of the calls that return (the calls that
\* throw are C6's).
C4_SamplingExtremes ==
    (IsShouldProcess /\ ~call.res.threw) =>
        /\ (filterConfig.samplingRate = 0 /\ call.event.severity \notin {"error", "critical"})
              => call.res.value = FALSE
        /\ (filterConfig.samplingRate = RateScale /\ call.res.drew) => call.res.value = TRUE

\* rules 1-5 decide the call
DecidedByRules1To5 ==
    \/ call.event.severity \in {"error", "critical"}
    \/ filterConfig.enableBotDetection /\ IsBotSession(TestContext, env) # Ret(FALSE)
    \/ IsDomainAllowed(filterConfig, call.event, env) # Ret(TRUE)
    \/ IsNoiseEvent(call.event)
    \/ filterConfig.excludeExtensions /\ IsExtensionEvent(call.event)

\* C5: custom predicates run in configured order and fail fast: the invoked
\* predicates are a prefix 1..k of the list, only the last invoked one can
\* have returned false and then the result is false; none is invoked when
\* rules 1-5 decide; the random draw is made only after all returned true.
C5_PredicatesFailFast ==
    IsShouldProcess =>
        LET invoked == call.res.invoked
            verdict(i) == ApplyPredicate(CallFilters[i], call.event, TestContext)
        IN /\ Len(invoked) <= Len(CallFilters)
           /\ \A j \in 1..Len(invoked) : invoked[j] = j
           /\ \A j \in 1..(Len(invoked) - 1) : verdict(j)
           /\ (\E j \in 1..Len(invoked) : ~verdict(j)) => (Returned(FALSE) /\ ~call.res.drew)
           /\ DecidedByRules1To5 => (invoked = <<>> /\ ~call.res.drew)
           /\ call.res.drew =>
                 (Len(invoked) = Len(CallFilters) /\ \A j \in 1..Len(invoked) : verdict(j))
           /\ (~DecidedByRules1To5 /\ \A j \in 1..Len(CallFilters) : verdict(j))
                 => (call.res.drew /\ Len(invoked) = Len(CallFilters))

\* the first of two predicates returned false: the second was not invoked
C5_Witness ==
    /\ IsShouldProcess
    /\ CallFilters = <<"dropInfo", "rejectAll">>
    /\ call.event.severity = "info"
    /\ call.res.invoked = <<1>>
    /\ Returned(FALSE) /\ ~call.res.drew

\* C6: shouldProcess and isRealUserSession return a boolean and never throw,
\* whichever of navigator, window, window.location, window.document and screen
\* are absent.
C6_NeverThrows == call.op # "idle" => ~call.res.threw

\* C7: isRealUserSession returns false without a window, false when a bot
\* signal is present, and true in every environment with a window and no bot
\* signal.
C7_RealUserSession ==
    call.op = "isRealUserSession" =>
        /\ ~env.window => Returned(FALSE)
        /\ (env.window /\ RefIsBot(env)) => Returned(FALSE)
        /\ (env.window /\ ~RefIsBot(env)) => Returned(TRUE)

\* where isRealUserSession returns at all, it returns what C7 says
C7_ReturnsOnlyAsClaimed ==
    (call.op = "isRealUserSession" /\ ~call.res.threw) =>
        call.res.value = (env.window /\ ~RefIsBot(env))

(***************************************************************************)
(* Claims about the coordinator, checked under Spec                        *)
(***************************************************************************)
\* C8: once initialize() has completed on a real-user session, and until
\* destroy(), getStats() reports initialized = true, domains = exactly the
\* configured domain names, and eventsProcessed = 0 unless an instrumented
\* call has emitted an admitted event since the log was last empty.
C8_StatsAfterInitialize ==
    isInitialized =>
        \A t \in Times :
            LET stats == GetStats(t) IN
            /\ ~stats.threw
            /\ stats.value.initialized
            /\ stats.value.domains = DomainNames
            /\ ~admitted => stats.value.eventsProcessed = 0

\* initialize() has just completed and nothing has been emitted
C8_Witness ==
    /\ last.op = "initializeResumed" /\ last.outcome = "initialized"
    /\ isInitialized /\ ~admitted
    /\ Keys(instrumentors) = DomainNames
    /\ events = <<>>

\* an initialize() step
IsInitializeCall == last'.op = "initialize"

\* the filter classifies the session as not real
SessionIsNotReal == IsRealUserSession(FALSE, env) = Ret(FALSE)

\* C9: when the session is classified as not real, initialize() returns
\* without error and changes nothing: no SDK setup, no instrumentor
\* constructed, initialized stays false, and a getStats() after the call
\* returns what a getStats() before the call returned.
C9_SkippedInitializeChangesNothing ==
    [][(IsInitializeCall /\ SessionIsNotReal) =>
          /\ last'.outcome \in {"skipped", "alreadyInitialized"}
          /\ UNCHANGED <<sdkSetups, pendingInit, constructed, instrumentors, isInitialized>>
          /\ \A before, after \in Times :
                before <= after => GetStats(after)' = GetStats(before)]_vars

\* what the skipped initialize() does leave alone: every field of the
\* coordinator, and getStats() read at one clock value
C9_SkippedInitializeKeepsState ==
    [][(IsInitializeCall /\ SessionIsNotReal) =>
          /\ last'.outcome \in {"skipped", "alreadyInitialized"}
          /\ UNCHANGED <<env, filterConfig, userContext, isInitialized, instrumentors,
                         exporters, events, pendingInit, sdkSetups, constructed, held>>
          /\ \A t \in Times : GetStats(t)' = GetStats(t)]_vars

\* C10: initialize() on an initialized instance returns without error and
\* leaves the instrumentors (each one's identity included), the event log, the
\* exporter list and the initialized flag unchanged, with no second SDK setup.
C10_InitializeIsIdempotent ==
    [][(IsInitializeCall /\ isInitialized) =>
          /\ last'.outcome = "alreadyInitialized"
          /\ UNCHANGED <<instrumentors, events, exporters, isInitialized>>
          /\ UNCHANGED <<sdkSetups, pendingInit, constructed>>]_vars

\* a second initialize() has returned on an instance holding a logged event
C10_Witness ==
    /\ last.op = "initialize" /\ last.outcome = "alreadyInitialized"
    /\ isInitialized
    /\ Keys(instrumentors) = DomainNames
    /\ Len(events) > 0
    /\ sdkSetups = 1

\* a destroy() step
IsDestroyCall == last'.op = "destroy"

\* C11: from any state, destroy() invokes the destroy hook of every registered
\* exporter that has one exactly once and leaves initialized = false, no
\* instrumentor, no exporter and an empty event log; a destroy() that follows
\* a destroy() changes nothing and invokes no hook.
C11_DestroyClearsAndIsIdempotent ==
    [][IsDestroyCall =>
          /\ last'.outcome = "returned"
          /\ Len(last'.hooks) = Cardinality({i \in 1..Len(exporters) : HasDestroyHook(exporters[i])})
          /\ \A i \in 1..Len(exporters) :
                HasDestroyHook(exporters[i]) =>
                    Cardinality({j \in 1..Len(last'.hooks) : last'.hooks[j] = exporters[i]}) = 1
          /\ ~isInitialized' /\ instrumentors' = <<>> /\ exporters' = <<>> /\ events' = <<>>
          /\ last.op = "destroy" =>
                /\ last'.hooks = <<>>
                /\ UNCHANGED <<env, filterConfig, userContext, isInitialized, instrumentors,
                               exporters, events, pendingInit, sdkSetups, constructed, held>>]_vars

\* destroy() has run on a coordinator that had been initialized (the host
\* holds one of its instrumentors) and whose exporter has a destroy hook
C11_Witness ==
    /\ last.op = "destroy" /\ last.hooks = <<"datadog">>
    /\ held # {} /\ sdkSetups > 0
    /\ ~isInitialized /\ instrumentors = <<>> /\ exporters = <<>> /\ events = <<>>

\* C12: from an initialized coordinator with any number of logged events,
\* destroy() followed by a successful initialize() on a real-user session
\* yields initialized = true, eventsProcessed = 0 and one instrumentor per
\* configured domain.
C12_RoundTrip ==
    (last.op = "initializeResumed" /\ last.outcome = "initialized" /\ sdkSetups = 2) =>
        \A t \in Times :
            LET stats == GetStats(t) IN
            /\ ~stats.threw
            /\ stats.value.initialized
            /\ stats.value.eventsProcessed = 0
            /\ stats.value.domains = DomainNames
            /\ Len(instrumentors) = Len(DomainNames)

\* the round trip has completed on a coordinator whose instrumentors are new
C12_Witness ==
    /\ last.op = "initializeResumed" /\ last.outcome = "initialized" /\ sdkSetups = 2
    /\ isInitialized /\ events = <<>>
    /\ \A i \in 1..Len(instrumentors) : instrumentors[i].id > Len(DomainNames)
    /\ held # {}

\* an updateUserContext(partial) step, partial being last'.arg
IsUpdateUserContextCall == last'.op = "updateUserContext"

\* after is before with the fields that partial gives replaced by partial's
MergedInto(before, partial, after) ==
    /\ after.userSegment =
          IF partial.userSegment # "" THEN partial.userSegment ELSE before.userSegment
    /\ after.isAuthenticated =
          IF partial.isAuthenticated # "absent" THEN partial.isAuthenticated = "true"
          ELSE before.isAuthenticated
    /\ after.deviceType =
          IF partial.deviceType # "" THEN partial.deviceType ELSE before.deviceType
    /\ after.sessionId =
          IF partial.sessionId # "" THEN partial.sessionId ELSE before.sessionId

\* C13: updateUserContext(partial) is a merge: a getStats() after it reports
\* partial's value for every field partial gives and, for every other field,
\* sessionId included, the value a getStats() before it reported; the domain
\* names, the event log, the exporters and the initialized flag are unchanged.
C13_UpdateUserContextMerges ==
    [][IsUpdateUserContextCall =>
          /\ last'.outcome = "returned"
          /\ Keys(instrumentors') = Keys(instrumentors)
          /\ UNCHANGED <<events, exporters, isInitialized>>
          /\ \A before, after \in Times :
                (before <= after /\ ~GetStats(before).threw) =>
                    /\ ~GetStats(after)'.threw
                    /\ MergedInto(GetStats(before).value.userContext, last'.arg,
                                  GetStats(after)'.value.userContext)]_vars

\* the merge as seen at one clock value
C13_UpdateUserContextMergesAtOneClock ==
    [][IsUpdateUserContextCall =>
          /\ last'.outcome = "returned"
          /\ Keys(instrumentors') = Keys(instrumentors)
          /\ UNCHANGED <<events, exporters, isInitialized>>
          /\ \A t \in Times :
                ~GetStats(t).threw =>
                    /\ ~GetStats(t)'.threw
                    /\ MergedInto(GetStats(t).value.userContext, last'.arg,
                                  GetStats(t)'.value.userContext)]_vars

\* the sessionId a context carries
SessionIdsInUse ==
    {GetCurrentUserContext(env, userContext, t).value.sessionId :
        t \in {u \in Times : ~GetCurrentUserContext(env, userContext, u).threw}}
    \cup {instrumentors[i].context.sessionId : i \in 1..Len(instrumentors)}

\* C14: sessionId is stable for the coordinator's lifetime: every getStats()
\* call, every context passed to the filter and every instrumentor built by
\* initialize() or updateUserContext() carries the same sessionId, whatever
\* the clock reads.
C14_SessionIdStable == Cardinality(SessionIdsInUse) <= 1

\* with a sessionId in the configuration there is one sessionId
C14_StableWhenConfigured == userContext.sessionId # "" => Cardinality(SessionIdsInUse) <= 1

\* the text of s after the first occurrence of lit ("" when there is none)
After(s, lit) ==
    IF Includes(s, lit)
    THEN LET i == CHOOSE j \in 1..(Len(s) - Len(lit) + 1) :
                    /\ SubSeq(s, j, j + Len(lit) - 1) = lit
                    /\ \A k \in 1..(j - 1) : SubSeq(s, k, k + Len(lit) - 1) # lit
         IN SubSeq(s, i + Len(lit), Len(s))
    ELSE ""

\* the items of a list written with ", " between them
RECURSIVE Split(_)
Split(s) ==
    IF s = "" THEN <<>>
    ELSE IF Includes(s, ", ")
         THEN <<SubSeq(s, 1, Len(s) - Len(After(s, ", ")) - 2)>> \o Split(After(s, ", "))
         ELSE <<s>>

\* the messages getDomainInstrumentor can throw, and what each one lists
KeyLists == {SubSeq(DomainNames, 1, k) : k \in 0..Len(DomainNames)}
NotFoundMessages == {NotFoundMessage(name, keys) : name \in RequestedNames, keys \in KeyLists}
listedDomains == [msg \in NotFoundMessages |-> Split(After(msg, "Available domains: "))]
namedKey == [msg \in NotFoundMessages |->
                LET rest == After(msg, "not found: ")
                IN SubSeq(rest, 1, Len(rest) - Len(After(rest, ". ")) - 2)]

\* a getDomainInstrumentor(name) step, name being last'.arg.name
IsGetDomainInstrumentorCall == last'.op = "getDomainInstrumentor"

\* C15: getDomainInstrumentor(name) returns the instrumentor registered under
\* name when there is one; otherwise it throws an error whose message names
\* the requested key and lists exactly the registered domain names; it never
\* returns a stand-in and changes nothing of the coordinator.
C15_GetDomainInstrumentor ==
    [][IsGetDomainInstrumentorCall =>
          /\ IF \E i \in 1..Len(instrumentors) : instrumentors[i].name = last'.arg.name
             THEN /\ last'.outcome = "returned"
                  /\ last'.arg.result \in Range(instrumentors)
                  /\ last'.arg.result.name = last'.arg.name
             ELSE /\ last'.outcome = "threw"
                  /\ namedKey[last'.arg.result] = last'.arg.name
                  /\ listedDomains[last'.arg.result] = Keys(instrumentors)
          /\ UNCHANGED <<env, filterConfig, userContext, isInitialized, instrumentors,
                         exporters, events, pendingInit, sdkSetups, constructed>>]_vars

\* a name that is not registered was asked of an initialized coordinator
C15_Witness ==
    /\ last.op = "getDomainInstrumentor" /\ last.outcome = "threw"
    /\ last.arg.name = "nonexistent"
    /\ isInitialized /\ Keys(instrumentors) = DomainNames
    /\ listedDomains[last.arg.result] = DomainNames

\* a configured name was asked after destroy()
C15_WitnessAfterDestroy ==
    /\ last.op = "getDomainInstrumentor" /\ last.outcome = "threw"
    /\ last.arg.name = "ecommerce"
    /\ sdkSetups > 0 /\ ~isInitialized /\ instrumentors = <<>> /\ exporters = <<>>

\* a step of the sink, handed the event last'.arg
IsEmitCall == last'.op = "emit"

\* the decisions shouldProcess can take on an event with the coordinator's
\* current context
CurrentDecisions(event) ==
    {ShouldProcess(filterConfig, event, GetCurrentUserContext(env, userContext, t).value,
                   env, draw).value :
        t \in {u \in Times : ~GetCurrentUserContext(env, userContext, u).threw},
        draw \in Draws}

\* C16: for every event an instrumentor hands to the sink, shouldProcess is
\* evaluated once with the coordinator's current context; when it rejects,
\* the event log and the exporters are untouched; when it admits, the event
\* is appended once to the log and export([event]) is invoked once on every
\* registered exporter.
C16_EventRouting ==
    [][IsEmitCall =>
          /\ last'.evaluated = 1
          /\ last'.outcome \in {"filtered", "admitted"} =>
                (last'.outcome = "admitted") \in CurrentDecisions(last'.arg)
          /\ UNCHANGED exporters
          /\ last'.outcome = "filtered" => (UNCHANGED events /\ last'.exports = <<>>)
          /\ last'.outcome = "admitted" =>
                /\ events' = Append(events, last'.arg)
                /\ last'.exports = exporters]_vars

\* a second event was admitted and handed to the Datadog exporter
C16_Witness ==
    /\ last.op = "emit" /\ last.outcome = "admitted"
    /\ Len(events) = 2 /\ events[2] = last.arg
    /\ exporters = <<"datadog">> /\ last.exports = <<"datadog">>

\* an event was rejected
C16_WitnessFiltered ==
    /\ last.op = "emit" /\ last.outcome = "filtered"
    /\ exporters # <<>> /\ last.exports = <<>>

InitializeFailed ==
    /\ last'.op \in {"initialize", "initializeResumed"}
    /\ last'.outcome = "threw"
    /\ ~SessionGate(env).threw

\* C18: when SDK setup or the construction of an instrumentor throws during
\* initialize(), the call throws to its caller, the instance is left with
\* initialized = false, and the initialize() call that follows is not
\* answered as already initialized.
C18_FailedInitializeLeavesUninitialized ==
    [][/\ InitializeFailed => ~isInitialized'
       /\ (last.op \in {"initialize", "initializeResumed"} /\ last.outcome = "threw"
              /\ IsInitializeCall)
             => last'.outcome # "alreadyInitialized"]_vars

\* what holds of every failed initialize(): the call itself does not set the
\* flag, so an instance with no other initialize() in flight stays
\* uninitialized and starts the next initialize() from the beginning
C18_FailedInitializeSetsNothing ==
    [][/\ InitializeFailed =>
             /\ isInitialized' = isInitialized
             /\ UNCHANGED <<exporters, events, userContext>>
       /\ (last.op \in {"initialize", "initializeResumed"} /\ last.outcome = "threw"
              /\ ~isInitialized /\ IsInitializeCall)
             => last'.outcome \in {"threw", "awaiting"}]_vars

\* an initialize() whose construction failed has returned on an instance that
\* an overlapping initialize() had already marked initialized
C18_FailedWhileInitialized ==
    last.op = "initializeResumed" /\ last.outcome = "threw" /\ isInitialized

(***************************************************************************)
(* Claims about instrumentApiCall, checked under InstrumentorSpec           *)
(***************************************************************************)
\* an instrumented call has settled
CallSettled == call.op = "instrumentApiCall" /\ call.state # "awaiting"

\* the duration the settled call measured
MeasuredDuration == call.result.duration

\* C19: an instrumentApiCall whose operation resolves returns success = true
\* with sla_violated = 1 exactly when duration > slaTarget and 0 otherwise,
\* and has handed the sink exactly one event, of type span, whose severity is
\* warn exactly when sla_violated = 1 and info otherwise; with slaTarget = 1
\* (the executor takes at least 100 ms) sla_violated is always 1.
C19_SlaViolation ==
    (CallSettled /\ ~call.rejects) =>
        /\ call.state = "resolved"
        /\ call.result.success = TRUE
        /\ call.result.customMetrics.sla_violated \in {0, 1}
        /\ call.result.customMetrics.sla_violated = 1
              <=> MeasuredDuration > call.domain.slaTarget
        /\ Len(call.handed) = 1
        /\ call.handed[1].eventType = "span"
        /\ call.handed[1].severity =
              (IF call.result.customMetrics.sla_violated = 1 THEN "warn" ELSE "info")
        /\ MeasuredDuration >= 100
        /\ call.domain.slaTarget = 1 => call.result.customMetrics.sla_violated = 1

\* a call that took exactly its target of 100 ms has returned sla_violated = 0
\* and handed over an info span
C19_Witness ==
    /\ CallSettled /\ ~call.rejects
    /\ call.domain.slaTarget = 100 /\ MeasuredDuration = 100
    /\ call.result.customMetrics.sla_violated = 0
    /\ call.handed[1].severity = "info"

\* a call with the 1 ms target has returned sla_violated = 1 and handed over
\* a warn span that the sampling rule then dropped
C19_WitnessStrictTarget ==
    /\ CallSettled /\ ~call.rejects
    /\ call.domain.slaTarget = 1
    /\ call.result.customMetrics.sla_violated = 1
    /\ call.handed[1].severity = "warn"
    /\ last.outcome = "filtered"

\* C20: an instrumentApiCall whose operation rejects does not reject: it
\* resolves with success = false, the operation's error and error_occurred = 1,
\* and has handed the sink exactly one event, of type error and severity
\* error, and no span event.
C20_OperationFailure ==
    (CallSettled /\ call.rejects) =>
        /\ call.state = "resolved"
        /\ call.result.success = FALSE
        /\ call.result.error = ExecuteApiCallError(call.endpoint)
        /\ call.result.customMetrics.error_occurred = 1
        /\ Len(call.handed) = 1
        /\ call.handed[1].eventType = "error"
        /\ call.handed[1].severity = "error"
        /\ \A i \in 1..Len(call.handed) : call.handed[i].eventType # "span"

\* a rejected operation has been reported under a configuration that samples
\* nothing, and its error event is in the log
C20_Witness ==
    /\ CallSettled /\ call.rejects
    /\ call.result.success = FALSE
    /\ filterConfig.samplingRate = 0
    /\ events # <<>> /\ events[Len(events)] = call.handed[1]

(***************************************************************************)
(* Claims about trackError and recordBusinessMetric, checked under EmitSpec *)
(***************************************************************************)
IsRecordBusinessMetric == call.op = "recordBusinessMetric"

NameHas(lit) == Includes(call.metricName, lit)

\* C23: recordBusinessMetric(metricName, value) hands the sink exactly one
\* event, of type metric, with metric.value = value and the business impact of
\* the first rule that matches the name: revenue|purchase -> revenue,
\* login|engagement -> engagement, latency|performance -> performance,
\* otherwise reliability; without a sink it hands over nothing and returns.
C23_RecordBusinessMetric ==
    IsRecordBusinessMetric =>
        IF call.inst.onEvent
        THEN /\ Len(call.handed) = 1
             /\ call.handed[1].eventType = "metric"
             /\ call.handed[1].metricValue = call.value
             /\ LET impact == call.handed[1].businessImpact
                    first == NameHas("revenue") \/ NameHas("purchase")
                    second == NameHas("login") \/ NameHas("engagement")
                    third == NameHas("latency") \/ NameHas("performance")
                IN  /\ first => impact = "revenue"
                    /\ (~first /\ second) => impact = "engagement"
                    /\ (~first /\ ~second /\ third) => impact = "performance"
                    /\ (~first /\ ~second /\ ~third) => impact = "reliability"
        ELSE call.handed = <<>> /\ ~call.threw

\* "login_latency", which matches the second and the third rule, has been
\* recorded as engagement
C23_Witness ==
    /\ IsRecordBusinessMetric /\ call.inst.onEvent
    /\ call.metricName = "login_latency" /\ call.value = 999
    /\ call.handed[1].businessImpact = "engagement"
    /\ call.handed[1].metricValue = 999

\* a metric has been recorded on an instrumentor without a sink
C23_WitnessNoSink ==
    IsRecordBusinessMetric /\ ~call.inst.onEvent /\ call.handed = <<>>

\* C24: recording the business metric "cart_value" emits an event whose
\* businessContext.businessImpact is "revenue".
C24_CartValueIsRevenue ==
    (IsRecordBusinessMetric /\ call.inst.onEvent /\ call.metricName = "cart_value") =>
        /\ Len(call.handed) = 1
        /\ call.handed[1].businessImpact = "revenue"

\* what the code does with "cart_value": no rule matches the name
C24_CartValueIsReliability ==
    (IsRecordBusinessMetric /\ call.inst.onEvent /\ call.metricName = "cart_value") =>
        /\ Len(call.handed) = 1
        /\ call.handed[1].businessImpact = "reliability"

\* a trackError step on an instrumentor the coordinator constructed
IsTrackErrorCall ==
    call'.op = "trackError" /\ last'.op # "destroy" /\ call'.inst.onEvent

C25_WitnessSampleNothing ==
    /\ call.op = "trackError" /\ call.inst.onEvent
    /\ filterConfig.samplingRate = 0
    /\ Len(events) = 2 /\ events[2] = call.handed[1]

(***************************************************************************)
(* Claims about instrumentUserJourney, checked under JourneySpec            *)
(***************************************************************************)
\* an instrumented journey step has settled
JourneyHasSettled == call.op = "instrumentUserJourney" /\ call.state # "awaiting"

\* C21: when the operation wrapped by instrumentUserJourney rejects or throws
\* the call does not reject: it resolves with success = false, the operation's
\* error and journey_step_failed = 1, and hands the sink no event.
C21_JourneyFailure ==
    (JourneyHasSettled /\ call.operation \in {"rejects", "throws", "rejectsWithoutReason"}) =>
        /\ call.state = "resolved"
        /\ call.result.success = FALSE
        /\ call.result.error =
              (IF call.operation = "rejectsWithoutReason" THEN NoReason ELSE OperationError)
        /\ call.result.customMetrics = [journey_step_failed |-> 1]
        /\ call.handed = <<>>

\* what holds of every operation that rejects with, or throws, an Error
C21_JourneyFailureWithError ==
    (JourneyHasSettled /\ call.operation \in {"rejects", "throws"}) =>
        /\ call.state = "resolved"
        /\ call.result.success = FALSE
        /\ call.result.error = OperationError
        /\ call.result.customMetrics = [journey_step_failed |-> 1]
        /\ call.handed = <<>>

\* and of every failure: no event is handed to the sink
C21_NoEventOnFailure ==
    (JourneyHasSettled /\ call.operation # "resolves") => call.handed = <<>>

\* the position of a step in the table, counted from 1; 0 when absent
StepPosition(journeyName, stepName) ==
    IF journeyName \in DOMAIN journeySteps
          /\ \E i \in 1..Len(journeySteps[journeyName]) :
                journeySteps[journeyName][i] = stepName
    THEN CHOOSE i \in 1..Len(journeySteps[journeyName]) :
            journeySteps[journeyName][i] = stepName
    ELSE 0

\* C22: when the wrapped operation resolves, the call hands the sink exactly
\* one span event named '<domain>.journey.<journey>.<step>' with userJourney =
\* journeyName and the step's position in the journey's list (0 when the
\* journey or the step is not in the table), and returns success = true with
\* journey_step_completed = 1 and step_duration_ms = duration.
C22_JourneySuccess ==
    (JourneyHasSettled /\ call.operation = "resolves") =>
        /\ Len(call.handed) = 1
        /\ call.handed[1].eventType = "span"
        /\ call.handed[1].name =
              call.domain.name \o ".journey." \o call.journeyName \o "." \o call.stepName
        /\ call.handed[1].userJourney = call.journeyName
        /\ call.handed[1].stepNumber = StepPosition(call.journeyName, call.stepName)
        /\ call.state = "resolved"
        /\ call.result.success = TRUE
        /\ call.result.customMetrics.journey_step_completed = 1
        /\ call.result.customMetrics.step_duration_ms = call.result.duration
        /\ call.result.duration >= call.took

\* the second step of the login flow has completed after 50 ms or more
C22_Witness ==
    /\ JourneyHasSettled /\ call.operation = "resolves"
    /\ call.journeyName = "user_login_flow" /\ call.stepName = "enter_credentials"
    /\ call.handed[1].stepNumber = 2
    /\ call.result.customMetrics.step_duration_ms >= 50

\* a step of a journey that is not in the table has completed with number 0
C22_WitnessUnknownJourney ==
    /\ JourneyHasSettled /\ call.operation = "resolves"
    /\ call.journeyName = "signup_flow"
    /\ call.handed[1].stepNumber = 0

(***************************************************************************)
(* Claims about addFilter, checked under AddFilterSpec                      *)
(***************************************************************************)
CustomFilterList(cfg) == IF cfg.customFilters.present THEN cfg.customFilters.list ELSE <<>>

\* the decision on an event with the custom predicates taken out: when it
\* reaches the sampling draw, rules 1-5 did not decide
WithoutCustomFilters(cfg) == [cfg EXCEPT !.customFilters = Absent]

\* the step in which an instrumented API call hands its event to the sink
ApiCallSettles ==
    /\ call.op = "instrumentApiCall" /\ call.state = "awaiting"
    /\ call'.state # "awaiting"

\* C26: addFilter appends the predicate at the end of the custom-filter list
\* and removes or reorders nothing; every later evaluation that is not decided
\* by rules 1-5 or by an earlier predicate invokes the predicate added last,
\* after all the others, and an event it rejects is not logged or exported.
C26_AddFilterAppends ==
    [][/\ (last'.op = "addFilter" /\ filterConfig' # filterConfig) =>
             /\ \E p \in Predicates :
                   filterConfig'.customFilters =
                       Present(Append(CustomFilterList(filterConfig), p))
             /\ WithoutCustomFilters(filterConfig') = WithoutCustomFilters(filterConfig)
       /\ (ApiCallSettles /\ CustomFilterList(filterConfig) # <<>>) =>
             LET list == CustomFilterList(filterConfig)
                 n == Len(list)
                 event == last'.arg
                 context == GetCurrentUserContext(env, userContext, 0).value
                 verdict(j) == ApplyPredicate(list[j], event, context)
                 base == ShouldProcess(WithoutCustomFilters(filterConfig), event,
                                       context, env, 0)
                 decision == ShouldProcess(filterConfig, event, context, env, 0)
             IN  (base.drew /\ \A j \in 1..(n - 1) : verdict(j)) =>
                    /\ decision.invoked = [j \in 1..n |-> j]
                    /\ ~verdict(n) =>
                          /\ last'.outcome = "filtered"
                          /\ UNCHANGED events
                          /\ last'.exports = <<>>]_vars

\* after addFilter(dropInfo) and addFilter(rejectAll), a warn span passed the
\* first predicate and was rejected by the second: nothing is logged
C26_Witness ==
    /\ CustomFilterList(filterConfig) = <<"dropInfo", "rejectAll">>
    /\ last.op = "emit" /\ last.arg.severity = "warn"
    /\ last.outcome = "filtered"
    /\ events = <<>>

(***************************************************************************)
(* Claims about the captured context, checked under ContextSpec             *)
(***************************************************************************)
\* segment, authenticated and deviceType, the fields instrumentor.getStats()
\* reports
UserFields(context) ==
    [sessionId |-> "", userSegment |-> context.userSegment,
     isAuthenticated |-> context.isAuthenticated, deviceType |-> context.deviceType]

\* an updateUserContext step that found instrumentors to rebuild
RebuildsInstrumentors ==
    last'.op = "updateUserContext" /\ instrumentors' # instrumentors

\* C27: updateUserContext(partial) replaces the instrumentor of every
\* registered domain by a new one constructed with the merged context, which
\* getDomainInstrumentor then returns and whose events carry that context; a
\* reference obtained before, and an operation in flight on it, keep the
\* context they were constructed with.
C27_ContextCapturedAtConstruction ==
    /\ [][RebuildsInstrumentors =>
             /\ Keys(instrumentors') = Keys(instrumentors)
             /\ \A i \in 1..Len(instrumentors) :
                   /\ instrumentors'[i].id > constructed
                   /\ \E t \in Times :
                         instrumentors'[i].context
                             = GetCurrentUserContext(env, userContext', t).value
                   /\ MergedInto(UserFields(instrumentors[i].context), last'.arg,
                                 UserFields(instrumentors'[i].context))
                   /\ userContext'.sessionId # "" =>
                         instrumentors'[i].context.sessionId = userContext'.sessionId
             /\ UNCHANGED <<held, call>>
             /\ \A h \in held : h \notin Range(instrumentors')]_vars
    /\ [][(last'.op = "getDomainInstrumentor" /\ last'.outcome = "returned") =>
             /\ last'.arg.result = MapGet(instrumentors, last'.arg.name)
             /\ last'.arg.result \in held'
             /\ UserFields(last'.arg.result.context)
                   = UserFields(GetCurrentUserContext(env, userContext, 0).value)]_vars
    /\ [][(ApiCallSettles /\ ~call.rejects) =>
             /\ call'.inst = call.inst
             /\ call'.handed[1].eventType = "span"
             /\ call'.handed[1].user = call.inst.context]_vars

\* an API call started on a reference obtained before the update has handed
\* over a span carrying the old segment, while the instrumentor registered
\* for that domain carries the new one
C27_Witness ==
    /\ call.op = "instrumentApiCall" /\ call.state = "resolved" /\ ~call.rejects
    /\ call.handed[1].user.userSegment = "premium"
    /\ userContext.userSegment = "enterprise"
    /\ MapGet(instrumentors, call.inst.name).context.userSegment = "enterprise"
    /\ MapGet(instrumentors, call.inst.name).id # call.inst.id

\* an API call on a reference obtained after the update has handed over a
\* span carrying the merged context
C27_WitnessNewReference ==
    /\ call.op = "instrumentApiCall" /\ call.state = "resolved" /\ ~call.rejects
    /\ call.inst = MapGet(instrumentors, call.inst.name)
    /\ last.op = "emit"
    /\ call.handed[1].user.userSegment = "enterprise"
    /\ call.handed[1].user.deviceType = "desktop"

(***************************************************************************)
(* Claims about concurrent invocations, checked under ConcurrentSpec        *)
(***************************************************************************)
IsPrefix(s, t) == Len(s) <= Len(t) /\ SubSeq(t, 1, Len(s)) = s

\* a destroy() step
DestroyStep == last'.op = "destroy" /\ call' = call

\* the step in which invocation i continues after its await
Completes(i) ==
    /\ i <= Len(call.calls)
    /\ call.calls[i].c.state = "awaiting"
    /\ call'.calls[i].c.state # "awaiting"

\* the events invocation i has handed to the sink
HandedBy(i) == call.calls[i].c.handed

\* C28: between destroy() calls the event log only grows at its end:
\* eventsProcessed never decreases, what is logged stays where it is, and an
\* event is appended in the step in which its invocation completes and is
\* admitted, so the log is in completion order, not in invocation order.
C28_AppendOnlyLog ==
    [][~DestroyStep =>
          /\ IsPrefix(events, events')
          /\ Len(events') <= Len(events) + 1
          /\ GetStats(0)'.value.eventsProcessed >= GetStats(0).value.eventsProcessed
          /\ events' # events =>
                \E i \in 1..Len(call.calls) :
                    /\ Completes(i)
                    /\ events' = Append(events, HandedBy(i)'[Len(HandedBy(i)')])]_vars

\* the journey step invoked second completed first, and the log holds its
\* event before the span of the API call invoked first
C28_Witness ==
    /\ Len(call.calls) = 2
    /\ call.calls[1].c.op = "instrumentApiCall" /\ call.calls[1].c.state = "resolved"
    /\ call.calls[2].c.op = "instrumentUserJourney" /\ call.calls[2].c.state = "resolved"
    /\ call.calls[1].started < call.calls[2].started
    /\ Len(events) = 2
    /\ events[1] = HandedBy(2)[1]
    /\ events[2] = HandedBy(1)[1]
    /\ events[1] # events[2]

\* the log only grows at its end under every operation of the coordinator
\* (checked under Spec)
C28_AppendOnlyInCoordinator ==
    [][last'.op # "destroy" =>
          /\ IsPrefix(events, events')
          /\ Len(events') <= Len(events) + 1]_vars

\* what the claim gives an invocation c that completes after duration: its
\* result and the events it hands to the sink, from its own inputs alone
OwnResult(c, duration) ==
    IF c.op = "instrumentApiCall"
    THEN IF c.rejects
         THEN FailureResult(duration, ExecuteApiCallError(c.endpoint))
         ELSE SuccessResult(duration, SlaViolated(duration, c.domain))
    ELSE IF c.operation = "resolves"
         THEN JourneySuccess(duration)
         ELSE JourneyFailure(duration, OperationError)

OwnEvents(c, duration) ==
    IF c.op = "instrumentApiCall"
    THEN IF c.rejects
         THEN <<ErrorEvent(c.domain, ExecuteApiCallError(c.endpoint))>>
         ELSE <<SpanEvent(c.domain, c.inst.context, c.endpoint,
                          SlaViolated(duration, c.domain))>>
    ELSE IF c.operation = "resolves"
         THEN <<JourneyEvent(c.domain, c.inst.context, c.journeyName, c.stepName,
                             GetStepNumber(c.journeyName, c.stepName).value)>>
         ELSE <<>>

\* invocation i resolves with its own result and has handed over its own events
ResolvesWithOwnResult(i) ==
    /\ call'.calls[i].started = call.calls[i].started
    /\ call'.calls[i].c.state = "resolved"
    /\ call'.calls[i].c.result
          = OwnResult(call.calls[i].c, call.now - call.calls[i].started)
    /\ call'.calls[i].c.handed
          = OwnEvents(call.calls[i].c, call.now - call.calls[i].started)

\* C29: concurrent invocations on one instrumentor are independent under
\* every interleaving: the invocation that completes in a step resolves with
\* its own result, whose duration runs from its own start to its own
\* completion, and has handed over only its own event (one, or none for a
\* failed journey step); every other invocation is left as it was.
C29_IndependentInvocations ==
    [][\A i \in 1..Len(call.calls) :
          IF Completes(i) THEN ResolvesWithOwnResult(i)
          ELSE call'.calls[i] = call.calls[i]]_vars

\* the same for every operation that does not reject without a reason; an
\* invocation whose operation does rejects, with no result and no event,
\* and leaves the others as they were
C29_IndependentOutcomes ==
    [][\A i \in 1..Len(call.calls) :
          IF Completes(i)
          THEN IF call.calls[i].c.op = "instrumentUserJourney"
                  /\ call.calls[i].c.operation = "rejectsWithoutReason"
               THEN /\ call'.calls[i].c.state = "rejected"
                    /\ call'.calls[i].c.handed = <<>>
                    /\ UNCHANGED events
               ELSE ResolvesWithOwnResult(i)
          ELSE call'.calls[i] = call.calls[i]]_vars

\* two invocations were in flight together and completed in the reverse of
\* their order of invocation, each with its own duration
C29_InterleavedCompletion ==
    /\ Len(call.calls) = 2
    /\ call.calls[1].c.state = "resolved" /\ call.calls[2].c.state = "resolved"
    /\ call.calls[1].c.op = "instrumentApiCall" /\ ~call.calls[1].c.result.success
    /\ call.calls[2].c.op = "instrumentApiCall" /\ call.calls[2].c.result.success
    /\ call.calls[1].c.result.duration > call.calls[2].c.result.duration
    /\ call.calls[1].started < call.calls[2].started
    /\ events = HandedBy(2) \o HandedBy(1)

(***************************************************************************)
(* Claims about pending invocations, checked under AwaitSpec                *)
(***************************************************************************)
\* invocation i of the given operation is awaiting
Awaiting(i, op) ==
    /\ Len(call.calls) >= i
    /\ call.calls[i].c.op = op
    /\ call.calls[i].c.state = "awaiting"

\* invocation i has ended in one of the given states
Ended(i, states) ==
    /\ Len(call.calls) >= i
    /\ call.calls[i].c.state \in states

\* invocation i awaits an operation that never settles
AwaitingForever(i) ==
    /\ Awaiting(i, "instrumentUserJourney")
    /\ ~WillSettle(call.calls[i])

\* C30: there is no timeout and no cancellation: a journey call resolves
\* once its operation has settled and stays pending forever when the
\* operation never settles; an API call always eventually resolves.
C30_NoTimeout ==
    \A i \in 1..MaxAwaited :
        /\ (Awaiting(i, "instrumentUserJourney") /\ WillSettle(call.calls[i]))
              ~> Ended(i, {"resolved"})
        /\ [](AwaitingForever(i) => [] AwaitingForever(i))
        /\ Awaiting(i, "instrumentApiCall") ~> Ended(i, {"resolved"})

\* the same with a call that settles either way: every call whose operation
\* settles is settled eventually
C30_SettlesWithOperation ==
    \A i \in 1..MaxAwaited :
        /\ (Awaiting(i, "instrumentUserJourney") /\ WillSettle(call.calls[i]))
              ~> Ended(i, {"resolved", "rejected"})
        /\ [](AwaitingForever(i) => [] AwaitingForever(i))
        /\ Awaiting(i, "instrumentApiCall") ~> Ended(i, {"resolved"})

\* no call continues before its timer or its operation is due
C30_NoEarlyCompletion ==
    [][\A i \in 1..Len(call.calls) :
          Completes(i) => call.now >= call.calls[i].due]_vars

\* a journey call awaits an operation that never settles
C30_PendingForever == AwaitingForever(1)

(***************************************************************************)
(* Claims about the attributes of the span event, under InstrumentorSpec    *)
(***************************************************************************)
\* the attributes of the span the settled call handed over
HandedAttributes == call.handed[1].attributes

\* a settled call whose operation resolved after more than the SLA target
SlaExceeded ==
    /\ CallSettled /\ ~call.rejects /\ call.state = "resolved"
    /\ MeasuredDuration > call.domain.slaTarget

\* C31: the span event of a successful instrumentApiCall whose duration
\* exceeds the SLA target carries sla.violated = true, the actual duration
\* and the violation severity in its attributes.
C31_SlaFieldsInEvent ==
    SlaExceeded =>
        /\ "sla.violated" \in DOMAIN HandedAttributes
        /\ HandedAttributes["sla.violated"] = TRUE
        /\ "sla.actual_ms" \in DOMAIN HandedAttributes
        /\ HandedAttributes["sla.actual_ms"] = MeasuredDuration
        /\ "sla.violation_severity" \in DOMAIN HandedAttributes
        /\ HandedAttributes["sla.violation_severity"]
              = GetSlaViolationSeverity(MeasuredDuration, call.domain)

\* what the event does carry: the attributes built before the await, with
\* the domain's target and none of the keys set on the span afterwards
C31_EventHasTargetOnly ==
    (CallSettled /\ ~call.rejects /\ call.state = "resolved") =>
        /\ HandedAttributes["domain.sla_target_ms"] = call.domain.slaTarget
        /\ DOMAIN HandedAttributes
              \cap DOMAIN SlaSpanAttributes(MeasuredDuration, call.domain) = {}
        /\ SlaExceeded => call.handed[1].severity = "warn"

(***************************************************************************)
(* Claims about one lifecycle, checked under LifecycleSpec                  *)
(***************************************************************************)
\* C32: between construction and the next destroy() the provider is
\* registered at most once and the instrumentor of each domain is constructed
\* at most once, also when initialize() calls overlap.
C32_OneSetupPerLifecycle ==
    /\ sdkSetups <= 1
    /\ constructed <= Len(DomainNames)

\* an initialize() called on an initialized coordinator with no other call in
\* flight sets nothing up, and one that started alone has registered once and constructed each
\* instrumentor once
C32_GuardedOnceInitialized ==
    [][/\ (isInitialized /\ pendingInit = 0)
             => UNCHANGED <<sdkSetups, constructed, instrumentors>>
       /\ (sdkSetups = 0 /\ pendingInit = 0 /\ sdkSetups' = 1) =>
             (pendingInit' = 1 /\ constructed' = 0)]_vars

\* two initialize() calls overlapped: both registered the provider and both
\* constructed the instrumentors
C32_SetUpTwice ==
    /\ sdkSetups = 2 /\ pendingInit = 0 /\ isInitialized
    /\ constructed = 2 * Len(DomainNames)
    /\ last.op = "initializeResumed" /\ last.outcome = "initialized"

(***************************************************************************)
(* Claims about a failing sink, checked under SinkFailureSpec               *)
(***************************************************************************)
\* the wrapped operation of invocation c resolved
OperationResolved(c) ==
    IF c.op = "instrumentApiCall" THEN ~c.rejects ELSE c.operation = "resolves"

\* the custom filter of the coordinator throws
FilterThrows ==
    /\ filterConfig.customFilters.present
    /\ \E i \in 1..Len(filterConfig.customFilters.list) :
          filterConfig.customFilters.list[i] \in ThrowingPredicates

\* C33: whenever the operation resolves the instrumentation call resolves
\* with success = true, also when the sink or a custom filter it runs
\* throws: a sink failure gives no success = false, no second event and no
\* rejected promise.
C33_SinkFailureNotReported ==
    \A i \in 1..Len(call.calls) :
        (call.calls[i].c.state # "awaiting" /\ OperationResolved(call.calls[i].c)) =>
            /\ call.calls[i].c.state = "resolved"
            /\ call.calls[i].c.result.success = TRUE
            /\ Len(call.calls[i].c.handed) = 1

\* the same where the filter does not throw
C33_HoldsWithoutSinkFailure ==
    ~FilterThrows =>
        \A i \in 1..Len(call.calls) :
            (call.calls[i].c.state # "awaiting" /\ OperationResolved(call.calls[i].c)) =>
                /\ call.calls[i].c.state = "resolved"
                /\ call.calls[i].c.result.success = TRUE
                /\ Len(call.calls[i].c.handed) = 1

\* an API call whose operation resolved and whose span made the filter throw
\* has returned success = false after handing over a second event, which is
\* logged
C33_ApiCallReportsSinkFailure ==
    /\ FilterThrows
    /\ Len(call.calls) >= 1
    /\ call.calls[1].c.op = "instrumentApiCall" /\ ~call.calls[1].c.rejects
    /\ call.calls[1].c.state = "resolved"
    /\ call.calls[1].c.result.success = FALSE
    /\ call.calls[1].c.result.error = SinkError
    /\ Len(call.calls[1].c.handed) = 2
    /\ call.calls[1].c.handed[2].eventType = "error"
    /\ events = <<call.calls[1].c.handed[2]>>

\* a journey step whose operation resolved has returned success = false
C33_JourneyReportsSinkFailure ==
    /\ FilterThrows
    /\ Len(call.calls) >= 1
    /\ call.calls[1].c.op = "instrumentUserJourney"
    /\ call.calls[1].c.operation = "resolves"
    /\ call.calls[1].c.state = "resolved"
    /\ call.calls[1].c.result.success = FALSE

(***************************************************************************)
(* Claims about the exporters after a round trip, under ReinitializedSpec   *)
(***************************************************************************)
\* destroy() and then initialize() have completed
RoundTripDone == sdkSetups = 2 /\ isInitialized

\* C34: after destroy() followed by a successful initialize() the
\* coordinator has the exporter its platform configuration selects, as
\* right after construction, and every event admitted from then on is
\* handed to it.
C34_ExportersRestored ==
    RoundTripDone =>
        /\ \E platform \in Platforms : exporters = SetupExporters(platform)
        /\ GetStats(0).value.exporters = exporters
        /\ (last.op = "emit" /\ last.outcome = "admitted") =>
              (last.exports # <<>> /\ last.exports = ExportToAll(exporters))

\* what holds instead: from destroy() on the coordinator has no exporter,
\* and an admitted event is logged and handed to none
C34_NoExporterAfterDestroy ==
    /\ (last.op = "destroy" \/ sdkSetups = 2) => exporters = <<>>
    /\ RoundTripDone => GetStats(0).value.exporters = <<>>
    /\ (RoundTripDone /\ last.op = "emit" /\ last.outcome = "admitted") =>
          (last.exports = <<>> /\ events # <<>>)

\* an event was admitted after the round trip and no exporter received it
C34_AdmittedButNotExported ==
    /\ RoundTripDone /\ last.op = "emit" /\ last.outcome = "admitted"
    /\ events # <<>> /\ last.exports = <<>>
    /\ \E h \in held : h \in Range(instrumentors)

(***************************************************************************)
(* Claims about the uninitialized coordinator, checked under Spec           *)
(***************************************************************************)
\* C35: in every reachable state getStats().initialized = false implies
\* getStats().eventsProcessed = 0 and no exporter receives an event, also
\* for an instrumentor reference used after destroy() and for an invocation
\* that completes after it.
C35_NothingProcessedWhileUninitialized ==
    \A t \in Times :
        (~GetStats(t).threw /\ ~GetStats(t).value.initialized) =>
            /\ GetStats(t).value.eventsProcessed = 0
            /\ last.op = "emit" => last.exports = <<>>

\* what holds: destroy() itself leaves an empty log and no exporter, so an
\* event emitted after it is exported nowhere
C35_DestroyLeavesNothing ==
    /\ last.op = "destroy" => (events = <<>> /\ exporters = <<>> /\ ~isInitialized)
    /\ (last.op = "emit" /\ exporters = <<>>) => last.exports = <<>>

\* an instrumentor obtained before destroy() was used after it: its event is
\* in the log of a coordinator that is not initialized
C35_LoggedAfterDestroy ==
    /\ ~isInitialized /\ instrumentors = <<>> /\ exporters = <<>>
    /\ last.op = "emit" /\ last.outcome = "admitted"
    /\ Len(events) = 1

\* an invocation started before destroy() completed after it and its event
\* is in the log (reached under ConcurrentSpec)
C35_CompletedAfterDestroy ==
    /\ ~isInitialized /\ exporters = <<>>
    /\ Len(call.calls) = 1 /\ call.calls[1].c.state = "resolved"
    /\ events = call.calls[1].c.handed /\ events # <<>>

\* an initialize() that was in flight when destroy() was called completes in
\* the step that follows the destroy()
ResumesAfterDestroy ==
    /\ last.op = "destroy" /\ pendingInit > 0
    /\ last'.op = "initializeResumed"

\* C36: destroy() wins over an initialize() still in flight: once that
\* initialize() completes the coordinator is not initialized and has no
\* instrumentors.
C36_DestroyWins ==
    [][ResumesAfterDestroy => (~isInitialized' /\ instrumentors' = <<>>)]_vars

\* what holds instead: the resumed initialize() does not look at what
\* destroy() did: when its constructions succeed it registers the
\* instrumentors and sets the flag, and it leaves the exporter list empty
C36_InitializeWins ==
    [][ResumesAfterDestroy =>
          /\ exporters' = <<>>
          /\ last'.outcome = "initialized" =>
                (isInitialized' /\ Keys(instrumentors') = DomainNames)]_vars

\* the coordinator is initialized by an initialize() that destroy() overtook:
\* one SDK setup, all instrumentors, no exporter
C36_InitializedAfterDestroy ==
    /\ isInitialized /\ sdkSetups = 1 /\ pendingInit = 0
    /\ exporters = <<>>
    /\ Keys(instrumentors) = DomainNames
    /\ last.op = "initializeResumed" /\ last.outcome = "initialized"

(***************************************************************************)
(* Claims about two coordinators, checked under TwoCoordinatorsSpec         *)
(***************************************************************************)
\* the decision of coordinator k on an event
DecisionOf(k, event, draw) ==
    ShouldProcess(filterConfig[call.filterOf[k]], event, TestContext, env, draw).value

\* an addFilter step of coordinator k
AddsFilterOn(k) ==
    /\ last'.op = "addFilter" /\ last'.arg.coordinator = k
    /\ filterConfig' # filterConfig

\* C37: addFilter on one coordinator never changes the admission decision
\* of another coordinator for any event, also when both were constructed
\* from the same filtering object, and never modifies the object the
\* caller passed in.
C37_CoordinatorsIsolated ==
    [][\A k \in Coordinators :
          AddsFilterOn(k) =>
              /\ \A j \in Coordinators \ {k} : \A event \in Events, draw \in Draws :
                    DecisionOf(j, event, draw)' = DecisionOf(j, event, draw)
              /\ \A j \in Coordinators :
                    filterConfig'[call.passed[j]] = filterConfig[call.passed[j]]]_vars

\* what holds: coordinators constructed from different objects do not
\* affect each other, and the object a coordinator was given is the one its
\* addFilter writes to
C37_IsolatedWhenNotShared ==
    [][\A k \in Coordinators :
          AddsFilterOn(k) =>
              /\ \A j \in Coordinators \ {k} :
                    call.passed[j] # call.passed[k] =>
                        filterConfig'[call.filterOf[j]] = filterConfig[call.filterOf[j]]
              /\ filterConfig'[call.passed[k]]
                    = AddCustomFilter(filterConfig[call.passed[k]],
                                      filterConfig'[call.passed[k]].customFilters.list[
                                          Len(filterConfig'[call.passed[k]].customFilters.list)])]_vars

\* coordinator 1 added rejectAll and coordinator 2, constructed from the same
\* object, now filters a warning it admitted before
C37_OtherCoordinatorAffected ==
    /\ call.passed = <<1, 1>>
    /\ last.op = "addFilter" /\ last.arg.coordinator = 1
    /\ filterConfig[call.filterOf[2]].customFilters = Present(<<"rejectAll">>)
    /\ \A draw \in Draws :
          ~ShouldProcess(filterConfig[call.filterOf[2]],
                         [severity |-> "warn", httpUrl |-> PlainUrl, url |-> "", stack |-> ""],
                         TestContext, env, draw).value

\* ---------------------------------------------------------------------------
\* The session gate of initialize() and the bot rule of shouldProcess
\* ---------------------------------------------------------------------------

\* the filtering objects of the scenario: the flag set and cleared
GateFilterings ==
    { TestFiltering, [TestFiltering EXCEPT !.enableBotDetection = FALSE] }

GateInit ==
    /\ env \in SignalEnvironments
    /\ filterConfig \in GateFilterings
    /\ call = Idle
    /\ Constructed

\* filter.updateConfig({ enableBotDetection: v }) between two calls
UpdateBotDetection ==
    /\ call.op = "idle"
    /\ \E v \in BOOLEAN : filterConfig' = UpdateConfig(filterConfig, "enableBotDetection", v)
    /\ UNCHANGED <<env, call, coordVars>>

GateNext ==
    \/ InitializeStart
    \/ InitializeFinish
    \/ ShouldProcessCall
    \/ ReturnFromCall
    \/ UpdateBotDetection

GateSpec == GateInit /\ [][GateNext]_vars

\* isBotSession(createDefaultContext()) returns true in this environment
BotSignal(e) == IsBotSession(CreateDefaultContext(e).value, e) = Ret(TRUE)

\* C38: in a session with a bot signal initialize() skips initialization
\* whatever enableBotDetection is (nothing is set up, the coordinator stays
\* uninitialized), whereas shouldProcess rejects a non-error event of that
\* session by the bot rule only when enableBotDetection is true: with the flag
\* cleared its decision is the one it takes in a session without the signal
C38_GateIgnoresBotDetectionFlag ==
    BotSignal(env) =>
        /\ ~isInitialized /\ sdkSetups = 0 /\ pendingInit = 0
        /\ last.op = "initialize" => last.outcome = "skipped"
        /\ call.op = "shouldProcess" /\ ~IsAlwaysProcessed(call.event) =>
              IF filterConfig.enableBotDetection
              THEN call.res = Decided(FALSE)
              ELSE call.res = ShouldProcess(filterConfig, call.event, TestContext,
                                            OrdinaryBrowser, call.draw)

\* initialize() was skipped in a bot session whose flag is cleared, and an
\* ordinary event of that session has passed shouldProcess
C38_Witness ==
    /\ BotSignal(env)
    /\ ~filterConfig.enableBotDetection
    /\ last.op = "initialize" /\ last.outcome = "skipped"
    /\ call.op = "shouldProcess" /\ ~IsAlwaysProcessed(call.event)
    /\ call.res.value

\* the same session with the flag set: skipped again, and the event rejected
C38_WitnessFlagSet ==
    /\ BotSignal(env)
    /\ filterConfig.enableBotDetection
    /\ last.op = "initialize" /\ last.outcome = "skipped"
    /\ call.op = "shouldProcess" /\ ~IsAlwaysProcessed(call.event)
    /\ call.res = Decided(FALSE)

\* ---------------------------------------------------------------------------
\* The batching exporters: DatadogExporter and NewRelicExporter
\* ---------------------------------------------------------------------------

\* the sizes of the exporters, scaled down with retry = batch / 2 kept:
\* batchSize 100 and slice(0, 50) for Datadog, 50 and slice(0, 25) for New Relic
DatadogBatchSize == 4
DatadogRetryKept == 2
NewRelicBatchSize == 2
NewRelicRetryKept == 1
MaxExported == 5    \* most events passed to export() in one behaviour
MaxFlushes == 2     \* most flushes in progress at once
MaxSendings == 2    \* most transmissions of one event in one behaviour

ExporterKinds == { "datadog", "newrelic" }

\* this.config.batchSize
BatchSize(kind) == IF kind = "datadog" THEN DatadogBatchSize ELSE NewRelicBatchSize

\* the bound of eventsToFlush.slice(0, n) in the catch block of flush()
RetryKept(kind) == IF kind = "datadog" THEN DatadogRetryKept ELSE NewRelicRetryKept

\* TelemetryEvent.eventType of the events exported: New Relic sends each type
\* in a request of its own, Datadog sends every type alike
ExportedTypes(kind) ==
    IF kind = "datadog" THEN { "span" } ELSE { "span", "metric", "error" }

\* events.filter(e => e.eventType is one of types)
OfTypes(batch, types) == SelectSeq(batch, LAMBDA e : e.eventType \in types)

\* the requests one flush makes, in order: one POST of the whole batch for
\* Datadog; spans, then custom events, then errors for New Relic, a request
\* being made only for a non-empty group
Requests(kind, batch) ==
    IF kind = "datadog" THEN << batch >>
    ELSE SelectSeq(<< OfTypes(batch, {"span"}), OfTypes(batch, {"metric", "log"}),
                      OfTypes(batch, {"error"}) >>,
                   LAMBDA group : group # <<>>)

\* Array.prototype.slice(0, n)
SliceFirst(seq, n) == SubSeq(seq, 1, IF Len(seq) < n THEN Len(seq) ELSE n)

\* one variant: the whole failed batch is put back
RequeueAll(batch, pending, kept) == batch \o pending

\* one variant: the kept events are put back behind the pending ones
RequeueBehind(batch, pending, kept) == pending \o SliceFirst(batch, kept)

\* this.batchedEvents.unshift(...eventsToFlush.slice(0, kept))
Requeue(batch, pending, kept) == SliceFirst(batch, kept) \o pending

\* one variant: the catch block rethrows
Rethrown(awaited) == IF awaited THEN "rejected" ELSE "none"

\* what the caller awaiting a flush sees when the flush ends in its catch block,
\* which logs and returns
AfterCatch(awaited) == IF awaited THEN "resolved" ELSE "none"

\* what the caller awaiting a flush sees when the flush returns
AfterReturn(awaited) == IF awaited THEN "resolved" ELSE "none"

\* seq without its i-th element
WithoutIndex(seq, i) == SubSeq(seq, 1, i - 1) \o SubSeq(seq, i + 1, Len(seq))

\* the events of seq counted once more each in the tally of transmissions
RECURSIVE Transmitted(_, _)
Transmitted(tally, seq) ==
    IF seq = <<>> THEN tally
    ELSE Transmitted([tally EXCEPT ![Head(seq).id] = @ + 1], Tail(seq))

\* flush() up to its first await: the batch is taken and the pending batch emptied
StartFlush(x, pending, awaited) ==
    [x EXCEPT !.batchedEvents = <<>>,
              !.flushes = Append(@, [batch |-> pending, done |-> 0, awaited |-> awaited]),
              !.settles = "none"]

\* exporter.export([event]): the event joins the pending batch, and a batch
\* that has reached batchSize is flushed, the caller awaiting the flush
Export ==
    /\ call.next <= MaxExported
    /\ \E type \in ExportedTypes(call.kind) :
        LET event == [id |-> call.next, eventType |-> type]
            pending == Append(call.batchedEvents, event)
            x == [call EXCEPT !.next = @ + 1]
        IN IF Len(pending) >= BatchSize(call.kind)
           THEN /\ Len(call.flushes) < MaxFlushes
                /\ call' = StartFlush(x, pending, TRUE)
           ELSE call' = [x EXCEPT !.batchedEvents = pending, !.settles = "resolved"]
    /\ UNCHANGED <<env, filterConfig, coordVars>>

\* the interval callback of startFlushTimer
TimerFlush ==
    /\ call.timer
    /\ call.batchedEvents # <<>>
    /\ Len(call.flushes) < MaxFlushes
    /\ call' = StartFlush(call, call.batchedEvents, FALSE)
    /\ UNCHANGED <<env, filterConfig, coordVars>>

\* forceFlush()
ForceFlush ==
    /\ call.batchedEvents # <<>>
    /\ Len(call.flushes) < MaxFlushes
    /\ call' = StartFlush(call, call.batchedEvents, TRUE)
    /\ UNCHANGED <<env, filterConfig, coordVars>>

\* exporter.destroy(): the timer is cleared and what is pending is flushed
ExporterDestroy ==
    /\ call.timer
    /\ IF call.batchedEvents = <<>>
       THEN call' = [call EXCEPT !.timer = FALSE, !.settles = "none"]
       ELSE /\ Len(call.flushes) < MaxFlushes
            /\ call' = [StartFlush(call, call.batchedEvents, FALSE) EXCEPT !.timer = FALSE]
    /\ UNCHANGED <<env, filterConfig, coordVars>>

\* the request a flush is awaiting is answered 2xx: its events are with the
\* backend; the flush goes on to its next request or returns
RequestSucceeds ==
    /\ \E i \in 1..Len(call.flushes) :
        LET flush == call.flushes[i]
            requests == Requests(call.kind, flush.batch)
            delivered == requests[flush.done + 1]
        IN /\ \A k \in 1..Len(delivered) : call.sent[delivered[k].id] < MaxSendings
           /\ IF flush.done + 1 = Len(requests)
              THEN call' = [call EXCEPT !.sent = Transmitted(@, delivered),
                                        !.flushes = WithoutIndex(@, i),
                                        !.settles = AfterReturn(flush.awaited)]
              ELSE call' = [call EXCEPT !.sent = Transmitted(@, delivered),
                                        !.flushes[i].done = @ + 1,
                                        !.settles = "none"]
    /\ UNCHANGED <<env, filterConfig, coordVars>>

\* the request a flush is awaiting fails (fetch rejects or the response is not
\* ok): the catch block of flush() runs
RequestFails ==
    /\ \E i \in 1..Len(call.flushes) :
        LET flush == call.flushes[i] IN
        call' = [call EXCEPT !.batchedEvents = Requeue(flush.batch, @, RetryKept(call.kind)),
                             !.flushes = WithoutIndex(@, i),
                             !.settles = AfterCatch(flush.awaited)]
    /\ UNCHANGED <<env, filterConfig, coordVars>>

\* a configured exporter with an API key, its timer started, nothing exported
ExporterInit ==
    /\ \E kind \in ExporterKinds :
        /\ call = [op |-> "exporter", kind |-> kind, batchedEvents |-> <<>>,
                   flushes |-> <<>>, sent |-> [id \in 1..MaxExported |-> 0],
                   next |-> 1, timer |-> TRUE, settles |-> "none"]
        /\ exporters = SetupExporters(kind)
    /\ env = OrdinaryBrowser
    /\ filterConfig = TestFiltering
    /\ userContext = TestContext
    /\ isInitialized = FALSE
    /\ instrumentors = <<>>
    /\ events = <<>>
    /\ pendingInit = 0
    /\ sdkSetups = 0
    /\ constructed = 0
    /\ held = {}
    /\ admitted = FALSE
    /\ last = Call("construct", "returned", <<>>, <<>>)

ExporterNext ==
    \/ Export
    \/ TimerFlush
    \/ ForceFlush
    \/ ExporterDestroy
    \/ RequestSucceeds
    \/ RequestFails

ExporterSpec == ExporterInit /\ [][ExporterNext]_vars

\* the ids of the events of a batch
IdsOf(batch) == { batch[k].id : k \in 1..Len(batch) }

\* the step in which the i-th flush in progress ends in its catch block
FlushFails(i) ==
    /\ call'.flushes = WithoutIndex(call.flushes, i)
    /\ call'.sent = call.sent

\* the events of the exporter that are pending or in a flush in progress
HeldIds(x) ==
    IdsOf(x.batchedEvents) \cup UNION { IdsOf(x.flushes[i].batch) : i \in 1..Len(x.flushes) }

\* C39: when a flush fails, the first DatadogRetryKept (NewRelicRetryKept) events
\* of the failed batch, or the whole batch if it is shorter, are put back at the
\* head of the pending batch in their original order, ahead of the events that
\* arrived while the flush was in progress; the rest of the failed batch is held
\* nowhere any more; and a caller awaiting the flush sees it resolve
C39_FailedFlushRequeuesHead ==
    [][ \A i \in 1..Len(call.flushes) :
          FlushFails(i) =>
            LET batch == call.flushes[i].batch
                most == IF call.kind = "datadog" THEN DatadogRetryKept
                        ELSE NewRelicRetryKept
                n == IF Len(batch) < most THEN Len(batch) ELSE most
            IN /\ call'.batchedEvents = SubSeq(batch, 1, n) \o call.batchedEvents
               /\ \A k \in (n + 1)..Len(batch) : batch[k].id \notin HeldIds(call')
               /\ call'.settles # "rejected"
               /\ call.flushes[i].awaited => call'.settles = "resolved" ]_vars

\* a Datadog batch of events 1..4 has failed while event 5 arrived: 1 and 2 are
\* pending ahead of 5, 3 and 4 are held nowhere and were never transmitted
C39_Witness ==
    /\ call.kind = "datadog"
    /\ call.flushes = <<>>
    /\ Len(call.batchedEvents) = DatadogRetryKept + 1
    /\ \A k \in 1..DatadogRetryKept : call.batchedEvents[k].id = k
    /\ call.batchedEvents[DatadogRetryKept + 1].id = DatadogBatchSize + 1
    /\ \A id \in 1..MaxExported : call.sent[id] = 0
    /\ call.settles = "resolved"

\* the same for New Relic: of a failed batch 1..2 event 1 is pending ahead of 3
C39_WitnessNewRelic ==
    /\ call.kind = "newrelic"
    /\ call.flushes = <<>>
    /\ Len(call.batchedEvents) = NewRelicRetryKept + 1
    /\ \A k \in 1..NewRelicRetryKept : call.batchedEvents[k].id = k
    /\ call.batchedEvents[NewRelicRetryKept + 1].id = NewRelicBatchSize + 1
    /\ \A id \in 1..MaxExported : call.sent[id] = 0

\* C40: an event passed to export() is transmitted to the backend at most once
C40_AtMostOnce ==
    \A id \in 1..MaxExported : call.sent[id] <= 1

\* what holds instead: the Datadog exporter, whose flush makes one request,
\* transmits an event at most once
C40_DatadogAtMostOnce ==
    call.kind = "datadog" => \A id \in 1..MaxExported : call.sent[id] <= 1

\* what holds instead: the pending batch and the batches of the flushes in
\* progress are pairwise disjoint, each event being held at most once
C40_FlushesDisjoint ==
    /\ Cardinality(IdsOf(call.batchedEvents)) = Len(call.batchedEvents)
    /\ \A i \in 1..Len(call.flushes) :
        /\ Cardinality(IdsOf(call.flushes[i].batch)) = Len(call.flushes[i].batch)
        /\ IdsOf(call.flushes[i].batch) \cap IdsOf(call.batchedEvents) = {}
        /\ \A j \in 1..Len(call.flushes) :
              i # j => IdsOf(call.flushes[i].batch) \cap IdsOf(call.flushes[j].batch) = {}

\* what holds instead: an event is transmitted twice only by the New Relic
\* exporter, whose flush makes up to three requests
C40_OnlyNewRelicRepeats ==
    \A id \in 1..MaxExported : call.sent[id] > 1 => call.kind = "newrelic"

\* two flushes are in progress at once, one started by the size of the batch
\* and awaited, one by the timer
C40_OverlappingFlushes ==
    /\ Len(call.flushes) = 2
    /\ call.flushes[1].awaited
    /\ ~call.flushes[2].awaited

\* a span of a New Relic batch was delivered, a later request of the batch
\* failed, and a later flush has delivered the span again
C40_SpanSentTwice ==
    /\ call.kind = "newrelic"
    /\ call.sent[1] = 2

====
